---- MODULE Spec2Model ----
(***************************************************************************)
(* State-machine model of the dashboard's fetch / aggregate / publish      *)
(* logic (React components of the casepeerai dashboard).                   *)
(*                                                                         *)
(* Every component keeps its own state (useState), shares nothing with the *)
(* other components, and is driven by fetch promises that settle in any    *)
(* order.  One behaviour follows ONE component instance (`view`) from      *)
(* before its mount, through its fetch cycles, to after its unmount; the   *)
(* asynchronous functions it started keep running after the unmount, as    *)
(* they do in the browser.                                                 *)
(***************************************************************************)
EXTENDS Integers, Sequences, FiniteSets, TLC

(***************************************************************************)
(* JSON values and fetch promises                                          *)
(***************************************************************************)

\* JS null / undefined held in a state variable
Null == [t |-> "null"]

\* a response body that is not JSON: Response.json() rejects on it
InvalidJson == [t |-> "invalid"]

\* a JSON array
Arr(items) == [t |-> "array", items |-> items]

\* a JSON object with the given fields
Obj(fields) == [t |-> "object", f |-> fields]

\* Array.isArray(v)
IsArray(v) == v.t = "array"

\* v.name is present, for a parsed JSON value v
HasField(v, name) == v.t = "object" /\ name \in DOMAIN v.f

\* a string held in a state variable
Str(m) == [t |-> "string", s |-> m]

\* a fetch() that has not been issued
NoFetch == [k |-> "none", status |-> 0, body |-> Null]

\* a fetch() promise that has not settled
PendingFetch == [k |-> "pending", status |-> 0, body |-> Null]

\* a fetch() promise that rejected (network failure)
RejectedFetch == [k |-> "rejected", status |-> 0, body |-> Null]

\* a fetch() promise fulfilled with a Response
Resp(status, body) == [k |-> "response", status |-> status, body |-> body]

\* Response.ok
Ok(r) == r.k = "response" /\ r.status \in 200..299

Settled(r) == r.k \in {"rejected", "response"}

\* the fetch failed: it rejected, or its response is not ok
Failed(r) == Settled(r) /\ ~Ok(r)

\* the non-2xx statuses the environment may answer with
FailStatuses == {400, 500}

\* all the ways a fetch of a source with the given 200-bodies can settle
Outcomes(bodies) ==
    {RejectedFetch} \cup {Resp(200, b) : b \in bodies}
                    \cup {Resp(s, Null) : s \in FailStatuses}

\* Promise.all(fetches) has rejected: some member rejected
AllRejected(net, srcs) == \E s \in srcs : net[s].k = "rejected"

\* a faulty join: it completes on the first response, before the others
AnyFulfilled(net, srcs) ==
    /\ ~AllRejected(net, srcs)
    /\ \E s \in srcs : net[s].k = "response"

\* Promise.all(fetches) has fulfilled: every member fulfilled
AllFulfilled(net, srcs) == \A s \in srcs : net[s].k = "response"

(***************************************************************************)
(* Optional numeric / string fields of a record: <<>> absent, <<v>> present *)
(***************************************************************************)

\* x || 0
OrZero(x) == IF x = <<>> THEN 0 ELSE x[1]

RECURSIVE SumFromSecond(_)
\* a reduce that starts the scan at the second element
SumFromSecond(seq) ==
    IF Len(seq) <= 1 THEN 0
    ELSE SumFromSecond(SubSeq(seq, 1, Len(seq) - 1)) + seq[Len(seq)]

RECURSIVE Sum(_)
\* seq.reduce((acc, e) => acc + e, 0) over a sequence of numbers: the
\* accumulator runs from the left
Sum(seq) ==
    IF seq = <<>> THEN 0
    ELSE Sum(SubSeq(seq, 1, Len(seq) - 1)) + seq[Len(seq)]

(***************************************************************************)
(* State.  `view` is the component instance a behaviour follows; each      *)
(* component's useState cells keep their source names behind a prefix.     *)
(***************************************************************************)

VARIABLES
    view,        \* which component this behaviour follows
    mounted,     \* "no" before mount, "yes" while attached, "gone" after unmount
    applied      \* history: the sources whose result a set-state call has written

VARIABLES
    so_pc,             \* StatsOverview: where fetchData stands
    so_net,            \* the two fetch promises of the cycle
    so_stats,          \* useState: stats
    so_charts,         \* useState: charts
    so_n8nExecutions,  \* useState: n8nExecutions (an array)
    so_loading         \* useState: loading

VARIABLES
    cd_pc,              \* CaseDetails: where fetchData stands
    cd_net,             \* its four fetch promises
    cd_caseData,        \* useState: caseData
    cd_negotiations,    \* useState: negotiations
    cd_classifications, \* useState: classifications
    cd_reminders,       \* useState: reminders
    cd_loading          \* useState: loading

VARIABLES
    cost_pc,          \* CostDashboard: where fetchData stands
    cost_i,           \* the source (1..3) it is working on
    cost_net,         \* its three fetch promises
    cost_tokenUsage,  \* useState: tokenUsage (an array)
    cost_openAiStats, \* useState: openAiStats
    cost_n8nStats,    \* useState: n8nStats
    cost_loading      \* useState: loading

VARIABLES
    va_pc,        \* VapiAnalytics: where fetchData stands
    va_net,       \* its two fetch promises
    va_callData,  \* useState: callData
    va_analytics, \* useState: analytics
    va_loading,   \* useState: loading
    va_error      \* useState: error

VARIABLES
    ne_pc,        \* N8nExecutions: where fetchData stands
    ne_net,       \* its fetch promise
    ne_data,      \* useState: data
    ne_loading,   \* useState: loading
    ne_error      \* useState: error

VARIABLES
    sl_reqs,        \* SystemLogs: the fetchLogs calls that have not returned
    sl_started,     \* how many fetchLogs calls were started
    sl_interval,    \* the active setInterval timers, oldest first, each with
                    \* the autoRefresh value its callback closed over
    sl_logs,        \* useState: logs
    sl_loading,     \* useState: loading
    sl_autoRefresh  \* useState: autoRefresh

VARIABLES
    df_reqs,         \* DocumentFeed: the fetchDocuments calls not yet returned
    df_started,      \* how many fetchDocuments calls were started
    df_interval,     \* whether the 30 s setInterval timer is active
    df_sync,         \* where handleSync stands
    df_latestCaseId, \* prop: latestCaseId
    df_documents,    \* useState: documents
    df_loading,      \* useState: loading
    df_syncing       \* useState: syncing

VARIABLES
    cn_reqs,     \* CaseNotes: the fetchNotes calls that have not returned
    cn_started,  \* how many fetchNotes calls were started
    cn_notes,    \* useState: notes
    cn_loading,  \* useState: loading
    cn_error     \* useState: error

VARIABLES
    ct_pc,       \* CaseTable: where fetchCases stands
    ct_body,     \* the body of its ok response
    ct_dels,     \* the DELETE requests that have not settled
    ct_started,  \* how many DELETE requests were started
    ct_last,     \* history: the DELETE request that settled last, and how
    ct_cases,    \* useState: cases
    ct_loading,  \* useState: loading
    ct_deleting  \* useState: deleting (<<>> is null)

VARIABLES
    app_authenticated,  \* App: useState authenticated
    app_activeTab,      \* useState: activeTab
    app_selectedCaseId  \* useState: selectedCaseId (<<>> is null)

VARIABLES
    au_calls,              \* Automations: the fetchData calls not yet returned
    au_started,            \* how many fetchData calls were started
    au_togglePosts,        \* toggleScheduler POSTs in flight
    au_triggerPosts,       \* triggerWorkflow POSTs in flight
    au_timers,             \* pending setTimeout(fetchData, 2000) timers
    au_schedulerStatus,    \* useState: schedulerStatus
    au_runs,               \* useState: runs
    au_knownCases,         \* useState: knownCases
    au_loading,            \* useState: loading
    au_triggeringWorkflow  \* useState: triggeringWorkflow

vars == <<view, mounted, applied, so_pc, so_net, so_stats, so_charts,
          so_n8nExecutions, so_loading, cd_pc, cd_net, cd_caseData,
          cd_negotiations, cd_classifications, cd_reminders, cd_loading,
          cost_pc, cost_i, cost_net, cost_tokenUsage, cost_openAiStats,
          cost_n8nStats, cost_loading, va_pc, va_net, va_callData,
          va_analytics, va_loading, va_error, ne_pc, ne_net, ne_data,
          ne_loading, ne_error, sl_reqs, sl_started, sl_interval, sl_logs,
          sl_loading, sl_autoRefresh, df_reqs, df_started, df_interval,
          df_sync, df_latestCaseId, df_documents, df_loading, df_syncing,
          cn_reqs, cn_started, cn_notes, cn_loading, cn_error, au_calls,
          au_started, au_togglePosts, au_triggerPosts, au_timers,
          au_schedulerStatus, au_runs, au_knownCases, au_loading,
          au_triggeringWorkflow, ct_pc, ct_body, ct_dels, ct_started,
          ct_last, ct_cases, ct_loading, ct_deleting, app_authenticated,
          app_activeTab, app_selectedCaseId>>

\* a step of the components in own leaves the state of every other
\* component alone: no component reads or writes another's useState cells
Frame(own) ==
    /\ IF "StatsOverview" \in own THEN TRUE
        ELSE UNCHANGED <<so_pc, so_net, so_stats, so_charts, so_n8nExecutions,
                         so_loading>>
    /\ IF "CaseDetails" \in own THEN TRUE
        ELSE UNCHANGED <<cd_pc, cd_net, cd_caseData, cd_negotiations,
                         cd_classifications, cd_reminders,
                         cd_loading>>
    /\ IF "CostDashboard" \in own THEN TRUE
        ELSE UNCHANGED <<cost_pc, cost_i, cost_net, cost_tokenUsage,
                         cost_openAiStats, cost_n8nStats,
                         cost_loading>>
    /\ IF "VapiAnalytics" \in own THEN TRUE
        ELSE UNCHANGED <<va_pc, va_net, va_callData, va_analytics, va_loading,
                         va_error>>
    /\ IF "N8nExecutions" \in own THEN TRUE
        ELSE UNCHANGED <<ne_pc, ne_net, ne_data, ne_loading, ne_error>>
    /\ IF "SystemLogs" \in own THEN TRUE
        ELSE UNCHANGED <<sl_reqs, sl_started, sl_interval, sl_logs, sl_loading,
                         sl_autoRefresh>>
    /\ IF "DocumentFeed" \in own THEN TRUE
        ELSE UNCHANGED <<df_reqs, df_started, df_interval, df_sync,
                         df_latestCaseId, df_documents, df_loading,
                         df_syncing>>
    /\ IF "CaseNotes" \in own THEN TRUE
        ELSE UNCHANGED <<cn_reqs, cn_started, cn_notes, cn_loading, cn_error>>
    /\ IF "Automations" \in own THEN TRUE
        ELSE UNCHANGED <<au_calls, au_started, au_togglePosts, au_triggerPosts,
                         au_timers, au_schedulerStatus, au_runs,
                         au_knownCases, au_loading,
                         au_triggeringWorkflow>>
    /\ IF "CaseTable" \in own THEN TRUE
        ELSE UNCHANGED <<ct_pc, ct_body, ct_dels, ct_started, ct_last,
                         ct_cases, ct_loading, ct_deleting>>
    /\ IF "App" \in own THEN TRUE
        ELSE UNCHANGED <<app_authenticated, app_activeTab,
                         app_selectedCaseId>>

(***************************************************************************)
(* StatsOverview: the aggregation of the cases payload                     *)
(***************************************************************************)

\* a count that is set, not incremented: acc[k] = 1
BumpOverwrites(acc, k) ==
    IF \E i \in DOMAIN acc : acc[i].name = k
    THEN acc
    ELSE Append(acc, [name |-> k, value |-> 1])

\* acc[k] = (acc[k] || 0) + 1 on an insertion-ordered object, kept as the
\* sequence of its {name, value} entries
Bump(acc, k) ==
    IF \E i \in DOMAIN acc : acc[i].name = k
    THEN [i \in DOMAIN acc |->
            IF acc[i].name = k
            THEN [name |-> k, value |-> acc[i].value + 1]
            ELSE acc[i]]
    ELSE Append(acc, [name |-> k, value |-> 1])

RECURSIVE CountBy(_, _, _)
\* keys.reduce((acc, k) => { acc[k] = (acc[k] || 0) + 1; return acc }, {})
CountBy(keys, i, acc) ==
    IF i > Len(keys) THEN acc ELSE CountBy(keys, i + 1, Bump(acc, keys[i]))

\* Object.entries(obj).map(([name, value]) => ({name, value})) of an object
\* kept as the sequence of its entries in insertion order.  The engine
\* lists the own keys that are array indices first, in ascending numeric
\* order, and the other string keys after them in insertion order; the
\* array indices among the keys of the model are "0" .. "3"
Entries(obj) ==
    LET indexKeys == <<"0", "1", "2", "3">>
        isIndex(k) == \E j \in DOMAIN indexKeys : indexKeys[j] = k
        present == SelectSeq(indexKeys,
                             LAMBDA k : \E i \in DOMAIN obj : obj[i].name = k)
    IN  [j \in DOMAIN present |->
            obj[CHOOSE i \in DOMAIN obj : obj[i].name = present[j]]]
        \o SelectSeq(obj, LAMBDA e : ~isIndex(e.name))

\* the property key c.status turns into: a missing status is "undefined"
StatusKey(c) == IF c.status = <<>> THEN "undefined" ELSE c.status[1]

\* n.result ?? 'Unknown': a default for the absent result only
ResultKeyAbsentOnly(n) ==
    IF n.result = <<>> THEN "Unknown" ELSE n.result[1]

\* n.result || 'Unknown': an absent result and the empty string are falsy
ResultKey(n) ==
    IF n.result = <<>> \/ n.result = <<"">> THEN "Unknown" ELSE n.result[1]

RECURSIVE FlattenPrepending(_, _, _)
\* a flattening that puts each case's negotiations in front of those
\* collected so far: [...c.negotiations, ...negotiations]
FlattenPrepending(cases, i, negotiations) ==
    IF i > Len(cases) THEN negotiations
    ELSE FlattenPrepending(cases, i + 1,
                           IF cases[i].negotiations # <<>>
                           THEN cases[i].negotiations[1] \o negotiations
                           ELSE negotiations)

RECURSIVE Flatten(_, _, _)
\* cases.forEach(c => { if (c.negotiations) negotiations =
\*                          [...negotiations, ...c.negotiations] })
Flatten(cases, i, negotiations) ==
    IF i > Len(cases) THEN negotiations
    ELSE Flatten(cases, i + 1,
                 IF cases[i].negotiations # <<>>
                 THEN negotiations \o cases[i].negotiations[1]
                 ELSE negotiations)

\* .slice(0, 20) of the negotiation detail chart
NegPerfLimit == 20

\* a slice that keeps the last n elements: arr.slice(-n)
SliceTail(arr, n) ==
    SubSeq(arr, IF Len(arr) < n THEN 1 ELSE Len(arr) - n + 1, Len(arr))

\* arr.slice(0, n), and str.substring(0, n)
Slice(arr, n) == SubSeq(arr, 1, IF Len(arr) < n THEN Len(arr) ELSE n)

\* the value useState gives stats before any fetch
InitialStats ==
    [totalCases |-> 0, activeCases |-> 0, totalRevenue |-> 0,
     totalSavings |-> 0, totalEmails |-> 0,
     winRate |-> [num |-> 0, den |-> 1],
     avgCaseValue |-> [num |-> 0, den |-> 1],
     latestCaseId |-> <<>>]

\* the value useState gives charts before any fetch
InitialCharts ==
    [revenue |-> <<>>, status |-> <<>>,
     negotiationPerf |-> <<>>, negotiationResults |-> <<>>]

\* a quotient rounded down to a whole number before it is stored
RatioRounded(a, totalCases) ==
    IF totalCases > 0 THEN [num |-> a \div totalCases, den |-> 1]
    ELSE [num |-> 0, den |-> 1]

\* a quotient without the zero-denominator guard
RatioUnguarded(a, totalCases) == [num |-> a, den |-> totalCases]

\* totalCases > 0 ? a / totalCases : 0, the quotient kept exact as the
\* fraction [num, den]
Ratio(a, totalCases) ==
    IF totalCases > 0 THEN [num |-> a, den |-> totalCases]
    ELSE [num |-> 0, den |-> 1]

\* the KPI calculations
SO_Stats(cases) ==
    LET totalCases   == Len(cases)
        activeCases  == Cardinality({i \in DOMAIN cases :
                                        cases[i].status = <<"Active">>})
        totalRevenue == Sum([i \in DOMAIN cases |-> OrZero(cases[i].revenue)])
        totalSavings == Sum([i \in DOMAIN cases |-> OrZero(cases[i].savings)])
        totalEmails  == Sum([i \in DOMAIN cases |->
                                OrZero(cases[i].emails_received)
                                + OrZero(cases[i].emails_sent)])
    IN  [totalCases |-> totalCases, activeCases |-> activeCases,
         totalRevenue |-> totalRevenue, totalSavings |-> totalSavings,
         totalEmails |-> totalEmails,
         winRate |-> Ratio(activeCases * 100, totalCases),
         avgCaseValue |-> Ratio(totalRevenue, totalCases),
         latestCaseId |-> IF totalCases > 0 THEN <<cases[1].id>> ELSE <<>>]

\* the four chart series (the modelled cases carry no case_name, so a
\* revenue bar is named by c.id; a negotiation without `to` is 'Neg ' + i)
SO_Charts(cases) ==
    LET negotiations == Flatten(cases, 1, <<>>)
    IN  [revenue |->
            [i \in DOMAIN cases |->
                [name |-> cases[i].id,
                 revenue |-> OrZero(cases[i].revenue),
                 savings |-> OrZero(cases[i].savings),
                 fees |-> OrZero(cases[i].fees_taken)]],
         status |->
            Entries(CountBy([i \in DOMAIN cases |-> StatusKey(cases[i])],
                            1, <<>>)),
         negotiationPerf |->
            Slice([i \in DOMAIN negotiations |->
                     [name |-> IF negotiations[i].to \notin {<<>>, <<"">>}
                               THEN [to |-> Slice(negotiations[i].to[1], 10)]
                               ELSE [neg |-> i - 1],
                      offered |-> OrZero(negotiations[i].offered_bill),
                      actual |-> OrZero(negotiations[i].actual_bill)]],
                  NegPerfLimit),
         negotiationResults |->
            Entries(CountBy([i \in DOMAIN negotiations |->
                                ResultKey(negotiations[i])], 1, <<>>))]

\* the cases the environment can place in a payload; between them they
\* carry every shape the aggregation distinguishes: a status that is
\* 'Active', another word, an integer-like string or absent; numeric fields
\* present, zero or absent; negotiations absent, empty or filled; a
\* negotiation result that is a word, the empty string or absent; a
\* recipient above ten characters; and a case with eleven negotiations, two
\* of which exceed the length of the negotiation detail chart
CaseRecords ==
    LET nA == [to |-> <<"Acme">>, offered_bill |-> <<40>>,
               actual_bill |-> <<30>>, result |-> <<"Accepted">>]
        nB == [to |-> <<>>, offered_bill |-> <<>>, actual_bill |-> <<10>>,
               result |-> <<>>]
        nC == [to |-> <<"Zen">>, offered_bill |-> <<15>>,
               actual_bill |-> <<15>>, result |-> <<"">>]
        nD == [to |-> <<"Acme Health Partners">>, offered_bill |-> <<5>>,
               actual_bill |-> <<0>>, result |-> <<"Rejected">>]
    IN  {[id |-> 1, status |-> <<"Active">>, revenue |-> <<100>>,
          savings |-> <<20>>, fees_taken |-> <<5>>,
          emails_received |-> <<2>>, emails_sent |-> <<1>>,
          negotiations |-> << <<nA, nB>> >>],
         [id |-> 2, status |-> <<"Closed">>, revenue |-> <<50>>,
          savings |-> <<>>, fees_taken |-> <<>>,
          emails_received |-> <<>>, emails_sent |-> <<>>,
          negotiations |-> <<>>],
         [id |-> 3, status |-> <<"2">>, revenue |-> <<>>,
          savings |-> <<10>>, fees_taken |-> <<>>,
          emails_received |-> <<1>>, emails_sent |-> <<>>,
          negotiations |-> << <<nC>> >>],
         [id |-> 4, status |-> <<"1">>, revenue |-> <<25>>,
          savings |-> <<0>>, fees_taken |-> <<0>>,
          emails_received |-> <<>>, emails_sent |-> <<3>>,
          negotiations |-> << <<>> >>],
         [id |-> 5, status |-> <<>>, revenue |-> <<0>>,
          savings |-> <<>>, fees_taken |-> <<2>>,
          emails_received |-> <<0>>, emails_sent |-> <<0>>,
          negotiations |-> << <<nD, nA>> >>],
         [id |-> 6, status |-> <<"Closed">>, revenue |-> <<10>>,
          savings |-> <<1>>, fees_taken |-> <<1>>,
          emails_received |-> <<>>, emails_sent |-> <<>>,
          negotiations |-> <<[k \in 1..11 |->
              [to |-> <<>>, offered_bill |-> <<k>>, actual_bill |-> <<>>,
               result |-> <<"Pending">>]]>>]}

\* the longest cases array the environment returns
MaxCases == 2

\* 200-bodies of GET /internal-api/cases: every array of at most MaxCases
\* cases, an object where the array is expected, and a body that is not JSON
CasesBodies ==
    {Arr(cases) : cases \in UNION {[1..n -> CaseRecords] : n \in 0..MaxCases}}
    \cup {Obj([detail |-> "Internal Server Error"]), InvalidJson}

\* the summary objects of GET /internal-api/integrations/n8n/executions the
\* environment returns.  success counts some of the total_fetched
\* executions, so it never exceeds total_fetched; workflow_breakdown is an
\* object from workflow name (or id) to count, kept as its entries in the
\* order of the JSON text.  The error field is read both as a message and
\* as a count, so its value carries its JSON type.  The set holds the
\* documented scenario, a summary with equal counts and a name above twenty
\* characters, one whose names are array indices, one that fetched nothing
\* and one that carries neither total_fetched nor workflow_breakdown
N8nSummaries ==
    {Obj([success |-> 8, error |-> [t |-> "number", v |-> 2],
          total_fetched |-> 10,
          workflow_breakdown |-> <<[name |-> "intake", value |-> 6],
                                   [name |-> "followup", value |-> 4]>>]),
     Obj([success |-> 1, error |-> [t |-> "number", v |-> 0],
          total_fetched |-> 3,
          workflow_breakdown |->
              <<[name |-> "zeta", value |-> 1],
                [name |-> "alpha", value |-> 2],
                [name |-> "beta", value |-> 2],
                [name |-> "lien-reduction-follow-up", value |-> 2]>>]),
     Obj([success |-> 2, error |-> [t |-> "number", v |-> 0],
          total_fetched |-> 2,
          workflow_breakdown |-> <<[name |-> "intake", value |-> 1],
                                   [name |-> "2", value |-> 3],
                                   [name |-> "1", value |-> 1]>>]),
     Obj([success |-> 0, error |-> [t |-> "number", v |-> 0],
          total_fetched |-> 0, workflow_breakdown |-> <<>>]),
     Obj([success |-> 3])}

\* 200-bodies of the n8n executions source: raw arrays of executions, the
\* summary objects, an {error} object and a body that is not JSON
N8nBodies ==
    {Arr(<<>>),
     Arr(<<[id |-> 11, finished |-> TRUE], [id |-> 12, finished |-> FALSE]>>),
     Obj([error |-> Str("n8n unreachable")]), InvalidJson}
    \cup N8nSummaries

\* the counts N8nHealth renders from its executions prop: a summary object
\* gives success || 0, error || 0 and total_fetched || (success + error);
\* an array gives its length, its finished executions and the rest
N8nHealth(executions) ==
    IF executions.t = "object"
    THEN LET successCount == IF HasField(executions, "success")
                             THEN executions.f.success ELSE 0
             errorCount == IF HasField(executions, "error")
                           THEN executions.f.error.v ELSE 0
         IN  [successCount |-> successCount, errorCount |-> errorCount,
              total |-> IF /\ HasField(executions, "total_fetched")
                           /\ executions.f.total_fetched # 0
                        THEN executions.f.total_fetched
                        ELSE successCount + errorCount]
    ELSE LET total == Len(executions.items)
             successCount == Cardinality({i \in DOMAIN executions.items :
                                             executions.items[i].finished})
         IN  [successCount |-> successCount,
              errorCount |-> total - successCount, total |-> total]

(***************************************************************************)
(* StatsOverview: state and the fetchData cycle started by its mount effect *)
(***************************************************************************)

SO_Sources == {"cases", "n8n"}

SO_Bodies(src) == IF src = "cases" THEN CasesBodies ELSE N8nBodies

SO_Init ==
    /\ so_pc = "idle"
    /\ so_net = [s \in SO_Sources |-> NoFetch]
    /\ so_stats = InitialStats
    /\ so_charts = InitialCharts
    /\ so_n8nExecutions = <<>>
    /\ so_loading = TRUE

\* what the component renders: the placeholder while loading, else the
\* KPIs, the charts and the executions handed to N8nHealth
SO_Rendered ==
    IF so_loading
    THEN [loading |-> TRUE]
    ELSE [loading |-> FALSE, stats |-> so_stats, charts |-> so_charts,
          executions |-> so_n8nExecutions]

\* a return that leaves the try block without the finally clause
SO_FinallyMissing ==
    /\ so_loading' = so_loading
    /\ so_pc' = "done"

\* catch (logs only) and finally { setLoading(false) }
SO_Finally ==
    /\ so_loading' = FALSE
    /\ so_pc' = "done"

\* the code after the cases branch: if (n8nRes.ok) await n8nRes.json()
SO_ToN8n ==
    IF Ok(so_net["n8n"])
    THEN so_pc' = "n8nJson" /\ so_loading' = so_loading
    ELSE SO_Finally

\* mount: the effect calls fetchData, which issues both fetches and awaits
\* Promise.all
SO_Mount ==
    /\ view = "StatsOverview" /\ mounted = "no"
    /\ mounted' = "yes"
    /\ so_pc' = "awaitAll"
    /\ so_net' = [s \in SO_Sources |-> PendingFetch]
    /\ UNCHANGED <<so_stats, so_charts, so_n8nExecutions, so_loading>>
    /\ UNCHANGED <<view, applied>>
    /\ Frame({"StatsOverview"})

\* one of the two fetch promises settles
SO_Settle ==
    /\ view = "StatsOverview"
    /\ \E src \in SO_Sources :
        /\ so_net[src].k = "pending"
        /\ \E r \in Outcomes(SO_Bodies(src)) :
              so_net' = [so_net EXCEPT ![src] = r]
    /\ UNCHANGED <<so_pc, so_stats, so_charts, so_n8nExecutions, so_loading>>
    /\ UNCHANGED <<view, mounted, applied>>
    /\ Frame({"StatsOverview"})

\* Promise.all rejected: control goes to catch, then finally
SO_JoinRejected ==
    /\ view = "StatsOverview" /\ so_pc = "awaitAll"
    /\ AllRejected(so_net, SO_Sources)
    /\ SO_Finally
    /\ UNCHANGED <<so_net, so_stats, so_charts, so_n8nExecutions>>
    /\ UNCHANGED <<view, mounted, applied>>
    /\ Frame({"StatsOverview"})

\* Promise.all fulfilled: if (casesRes.ok) await casesRes.json(), else on to
\* the n8n branch
SO_JoinFulfilled ==
    /\ view = "StatsOverview" /\ so_pc = "awaitAll"
    /\ AllFulfilled(so_net, SO_Sources)
    /\ IF Ok(so_net["cases"])
       THEN so_pc' = "casesJson" /\ so_loading' = so_loading
       ELSE SO_ToN8n
    /\ UNCHANGED <<so_net, so_stats, so_charts, so_n8nExecutions>>
    /\ UNCHANGED <<view, mounted, applied>>
    /\ Frame({"StatsOverview"})

\* casesRes.json() settled: a body that is not JSON rejects, a non-array
\* throws at cases.filter; an array is aggregated and published
SO_CasesJson ==
    /\ view = "StatsOverview" /\ so_pc = "casesJson"
    /\ LET cases == so_net["cases"].body IN
       IF IsArray(cases)
       THEN /\ so_stats' = SO_Stats(cases.items)
            /\ so_charts' = SO_Charts(cases.items)
            /\ applied' = applied \cup {"cases"}
            /\ SO_ToN8n
       ELSE /\ SO_Finally
            /\ UNCHANGED <<so_stats, so_charts, applied>>
    /\ UNCHANGED <<so_net, so_n8nExecutions, view, mounted>>
    /\ Frame({"StatsOverview"})

\* n8nRes.json() settled: only an array is stored
SO_N8nJson ==
    /\ view = "StatsOverview" /\ so_pc = "n8nJson"
    /\ LET n8nData == so_net["n8n"].body IN
       IF IsArray(n8nData)
       THEN /\ so_n8nExecutions' = n8nData.items
            /\ applied' = applied \cup {"n8n"}
       ELSE UNCHANGED <<so_n8nExecutions, applied>>
    /\ SO_Finally
    /\ UNCHANGED <<so_net, so_stats, so_charts, view, mounted>>
    /\ Frame({"StatsOverview"})

(***************************************************************************)
(* CaseDetails: fetchData, started by the effect on [caseId]               *)
(***************************************************************************)

\* the three sources fetched together, in the order their results are used
CD_Order == <<"negotiations", "classifications", "reminders">>

CD_Related == {CD_Order[i] : i \in DOMAIN CD_Order}

CD_Sources == {"case"} \cup CD_Related

\* 200-bodies of GET /internal-api/cases/{id}
CaseBodies == {Obj([id |-> 1, status |-> <<"Active">>]), InvalidJson}

\* 200-bodies of the negotiations / classifications / reminders listings
RelatedBodies == {Arr(<<[id |-> 1]>>), InvalidJson}

CD_Bodies(src) == IF src = "case" THEN CaseBodies ELSE RelatedBodies

CD_Init ==
    /\ cd_pc = "idle"
    /\ cd_net = [s \in CD_Sources |-> NoFetch]
    /\ cd_caseData = Null
    /\ cd_negotiations = Arr(<<>>)
    /\ cd_classifications = Arr(<<>>)
    /\ cd_reminders = Arr(<<>>)
    /\ cd_loading = TRUE

\* catch (logs only) and finally { setLoading(false) }
CD_Finally ==
    /\ cd_loading' = FALSE
    /\ cd_pc' = "done"

\* const [negRes, classRes, remRes] = await Promise.all([fetch, fetch, fetch])
CD_DispatchRelated ==
    /\ cd_net' = [s \in CD_Sources |->
                    IF s \in CD_Related THEN PendingFetch ELSE cd_net[s]]
    /\ cd_pc' = "awaitAll"
    /\ cd_loading' = cd_loading

\* the chain  if (negRes.ok) ...; if (classRes.ok) ...; if (remRes.ok) ...
\* entered at its i-th statement: await the json() of the first ok response
CD_Goto(i) ==
    LET oks == {j \in i..Len(CD_Order) : Ok(cd_net[CD_Order[j]])} IN
    IF oks = {}
    THEN CD_Finally
    ELSE /\ cd_pc' = CD_Order[CHOOSE j \in oks : \A k \in oks : j <= k]
         /\ cd_loading' = cd_loading

\* mount with a caseId: setLoading(true), then the case fetch alone
CD_Mount ==
    /\ view = "CaseDetails" /\ mounted = "no"
    /\ mounted' = "yes"
    /\ cd_loading' = TRUE
    /\ cd_pc' = "awaitCase"
    /\ cd_net' = [cd_net EXCEPT !["case"] = PendingFetch]
    /\ UNCHANGED <<cd_caseData, cd_negotiations, cd_classifications,
                   cd_reminders, view, applied>>
    /\ Frame({"CaseDetails"})

\* one of the fetch promises settles
CD_Settle ==
    /\ view = "CaseDetails"
    /\ \E src \in CD_Sources :
        /\ cd_net[src].k = "pending"
        /\ \E r \in Outcomes(CD_Bodies(src)) :
              cd_net' = [cd_net EXCEPT ![src] = r]
    /\ UNCHANGED <<cd_pc, cd_caseData, cd_negotiations, cd_classifications,
                   cd_reminders, cd_loading>>
    /\ UNCHANGED <<view, mounted, applied>>
    /\ Frame({"CaseDetails"})

\* await fetch(case) is over: a rejection goes to catch, an ok response to
\* json(), any other response straight on to the related fetches
CD_CaseSettled ==
    /\ view = "CaseDetails" /\ cd_pc = "awaitCase"
    /\ Settled(cd_net["case"])
    /\ IF cd_net["case"].k = "rejected"
       THEN CD_Finally /\ cd_net' = cd_net
       ELSE IF Ok(cd_net["case"])
            THEN cd_pc' = "caseJson" /\ UNCHANGED <<cd_net, cd_loading>>
            ELSE CD_DispatchRelated
    /\ UNCHANGED <<cd_caseData, cd_negotiations, cd_classifications,
                   cd_reminders>>
    /\ UNCHANGED <<view, mounted, applied>>
    /\ Frame({"CaseDetails"})

\* setCaseData(await caseRes.json()), then the related fetches are issued
CD_CaseJson ==
    /\ view = "CaseDetails" /\ cd_pc = "caseJson"
    /\ LET data == cd_net["case"].body IN
       IF data = InvalidJson
       THEN /\ CD_Finally
            /\ UNCHANGED <<cd_net, cd_caseData, applied>>
       ELSE /\ cd_caseData' = data
            /\ applied' = applied \cup {"case"}
            /\ CD_DispatchRelated
    /\ UNCHANGED <<cd_negotiations, cd_classifications, cd_reminders,
                   view, mounted>>
    /\ Frame({"CaseDetails"})

\* Promise.all of the related fetches rejected
CD_JoinRejected ==
    /\ view = "CaseDetails" /\ cd_pc = "awaitAll"
    /\ AllRejected(cd_net, CD_Related)
    /\ CD_Finally
    /\ UNCHANGED <<cd_net, cd_caseData, cd_negotiations, cd_classifications,
                   cd_reminders>>
    /\ UNCHANGED <<view, mounted, applied>>
    /\ Frame({"CaseDetails"})

\* Promise.all of the related fetches fulfilled
CD_JoinFulfilled ==
    /\ view = "CaseDetails" /\ cd_pc = "awaitAll"
    /\ AllFulfilled(cd_net, CD_Related)
    /\ CD_Goto(1)
    /\ UNCHANGED <<cd_net, cd_caseData, cd_negotiations, cd_classifications,
                   cd_reminders>>
    /\ UNCHANGED <<view, mounted, applied>>
    /\ Frame({"CaseDetails"})

\* setNegotiations / setClassifications / setReminders (await res.json())
CD_RelatedJson ==
    /\ view = "CaseDetails"
    /\ \E i \in DOMAIN CD_Order :
        /\ cd_pc = CD_Order[i]
        /\ LET data == cd_net[CD_Order[i]].body IN
           IF data = InvalidJson
           THEN /\ CD_Finally
                /\ UNCHANGED <<cd_negotiations, cd_classifications,
                               cd_reminders, applied>>
           ELSE /\ cd_negotiations' =
                      IF i = 1 THEN data ELSE cd_negotiations
                /\ cd_classifications' =
                      IF i = 2 THEN data ELSE cd_classifications
                /\ cd_reminders' = IF i = 3 THEN data ELSE cd_reminders
                /\ applied' = applied \cup {CD_Order[i]}
                /\ CD_Goto(i + 1)
    /\ UNCHANGED <<cd_net, cd_caseData, view, mounted>>
    /\ Frame({"CaseDetails"})

(***************************************************************************)
(* CostDashboard: fetchData awaits its three sources one after another     *)
(***************************************************************************)

\* the sources in the order fetchData awaits them
Cost_Order == <<"token_usage", "openai", "n8n">>

Cost_Sources == {Cost_Order[i] : i \in DOMAIN Cost_Order}

\* the token-usage records the environment returns: a cost that is
\* positive, zero or absent
UsageRecords ==
    {[date |-> 1, cost |-> <<3>>], [date |-> 2, cost |-> <<>>],
     [date |-> 3, cost |-> <<0>>]}

\* the longest token-usage array the environment returns
MaxUsage == 2

\* 200-bodies of GET /internal-api/token_usage: every array of at most
\* MaxUsage records, an object where the array is expected, and a body
\* that is not JSON
UsageBodies ==
    {Arr(u) : u \in UNION {[1..n -> UsageRecords] : n \in 0..MaxUsage}}
    \cup {Obj([detail |-> "Internal Server Error"]), InvalidJson}

\* 200-bodies of GET /internal-api/integrations/openai/usage
OpenAiBodies == {Obj([total_tokens |-> 5]), InvalidJson}

Cost_Bodies(src) ==
    IF src = "token_usage" THEN UsageBodies
    ELSE IF src = "openai" THEN OpenAiBodies ELSE N8nBodies

\* new Date(item.date).toLocaleDateString()
LocaleDateString(date) == [localeDate |-> date]

\* data.map(item => ({...item, dateStr: ...}))
WithDateStr(items) ==
    [i \in DOMAIN items |->
        [date |-> items[i].date, cost |-> items[i].cost,
         dateStr |-> LocaleDateString(items[i].date)]]

Cost_Init ==
    /\ cost_pc = "idle"
    /\ cost_i = 1
    /\ cost_net = [s \in Cost_Sources |-> NoFetch]
    /\ cost_tokenUsage = <<>>
    /\ cost_openAiStats = Null
    /\ cost_n8nStats = Null
    /\ cost_loading = TRUE

\* what the component renders: no branch of the JSX reads `loading`
Cost_Rendered ==
    [tokenUsage |-> cost_tokenUsage, openAiStats |-> cost_openAiStats,
     n8nStats |-> cost_n8nStats]

\* tokenUsage.reduce((acc, curr) => acc + curr.cost, 0), computed on every
\* render: a number plus undefined is NaN, and NaN plus anything is NaN
Cost_TotalInternalCost(tokenUsage) ==
    IF \E i \in DOMAIN tokenUsage : tokenUsage[i].cost = <<>>
    THEN [t |-> "NaN"]
    ELSE [t |-> "number",
          v |-> Sum([i \in DOMAIN tokenUsage |-> tokenUsage[i].cost[1]])]

\* catch (logs only) and finally { setLoading(false) }
Cost_Finally ==
    /\ cost_loading' = FALSE
    /\ cost_pc' = "done"
    /\ UNCHANGED <<cost_i, cost_net>>

\* go on to the statement after the i-th source: await the next fetch, or
\* leave the try block
Cost_After(i) ==
    IF i < Len(Cost_Order)
    THEN /\ cost_i' = i + 1
         /\ cost_net' = [cost_net EXCEPT ![Cost_Order[i + 1]] = PendingFetch]
         /\ cost_pc' = "awaitFetch"
         /\ cost_loading' = cost_loading
    ELSE Cost_Finally

\* mount: setLoading(true) and the first fetch
Cost_Mount ==
    /\ view = "CostDashboard" /\ mounted = "no"
    /\ mounted' = "yes"
    /\ cost_loading' = TRUE
    /\ cost_pc' = "awaitFetch"
    /\ cost_net' = [cost_net EXCEPT ![Cost_Order[1]] = PendingFetch]
    /\ UNCHANGED <<cost_i, cost_tokenUsage, cost_openAiStats, cost_n8nStats,
                   view, applied>>
    /\ Frame({"CostDashboard"})

\* the fetch promise being awaited settles
Cost_Settle ==
    /\ view = "CostDashboard"
    /\ \E src \in Cost_Sources :
        /\ cost_net[src].k = "pending"
        /\ \E r \in Outcomes(Cost_Bodies(src)) :
              cost_net' = [cost_net EXCEPT ![src] = r]
    /\ UNCHANGED <<cost_pc, cost_i, cost_tokenUsage, cost_openAiStats,
                   cost_n8nStats, cost_loading>>
    /\ UNCHANGED <<view, mounted, applied>>
    /\ Frame({"CostDashboard"})

\* await fetch(...) is over: a rejection goes to catch, an ok response to
\* json(), any other response to the next source
Cost_FetchSettled ==
    /\ view = "CostDashboard" /\ cost_pc = "awaitFetch"
    /\ LET r == cost_net[Cost_Order[cost_i]] IN
        /\ Settled(r)
        /\ IF r.k = "rejected"
           THEN Cost_Finally
           ELSE IF Ok(r)
                THEN /\ cost_pc' = "awaitJson"
                     /\ UNCHANGED <<cost_i, cost_net, cost_loading>>
                ELSE Cost_After(cost_i)
    /\ UNCHANGED <<cost_tokenUsage, cost_openAiStats, cost_n8nStats>>
    /\ UNCHANGED <<view, mounted, applied>>
    /\ Frame({"CostDashboard"})

\* the awaited json() settles and its set-state call runs; data.map throws
\* when the token-usage body is not an array
Cost_Json ==
    /\ view = "CostDashboard" /\ cost_pc = "awaitJson"
    /\ LET src  == Cost_Order[cost_i]
           data == cost_net[src].body
       IN  IF data = InvalidJson \/ (cost_i = 1 /\ ~IsArray(data))
           THEN /\ Cost_Finally
                /\ UNCHANGED <<cost_tokenUsage, cost_openAiStats,
                               cost_n8nStats, applied>>
           ELSE /\ cost_tokenUsage' =
                      IF cost_i = 1 THEN WithDateStr(data.items)
                      ELSE cost_tokenUsage
                /\ cost_openAiStats' =
                      IF cost_i = 2 THEN data ELSE cost_openAiStats
                /\ cost_n8nStats' = IF cost_i = 3 THEN data ELSE cost_n8nStats
                /\ applied' = applied \cup {src}
                /\ Cost_After(cost_i)
    /\ UNCHANGED <<view, mounted>>
    /\ Frame({"CostDashboard"})

(***************************************************************************)
(* VapiAnalytics: fetchData over the calls and the analytics source        *)
(***************************************************************************)

VA_Sources == {"calls", "analytics"}

\* the summary objects of GET /internal-api/integrations/vapi/calls the
\* environment returns.  recent_calls lists the calls newest first; a
\* call's costBreakdown is absent or an object, kept as its entries in the
\* order of the JSON text, whose values carry their JSON type.  The set
\* holds a summary whose first two calls have no or an empty breakdown and
\* whose third mixes numbers, a nested object and a string; one of zero
\* duration and no breakdown at all; one without duration and calls; and
\* one whose first call already has a breakdown
CallSummaries ==
    LET num(n) == [t |-> "number", v |-> n]
        bare == [id |-> "call-a", costBreakdown |-> <<>>]
        empty == [id |-> "call-b", costBreakdown |-> << <<>> >>]
        mixed == [id |-> "call-c", costBreakdown |-> <<
                    <<[name |-> "stt", value |-> num(1)],
                      [name |-> "analysisCostBreakdown",
                       value |-> Obj([summary |-> 1])],
                      [name |-> "llm", value |-> num(2)],
                      [name |-> "currency", value |-> Str("USD")]>> >>]
        plain == [id |-> "call-d", costBreakdown |-> <<
                    <<[name |-> "total", value |-> num(9)]>> >>]
    IN  {Obj([total_calls |-> 4, total_cost |-> 3,
              total_duration_minutes |-> 4,
              recent_calls |-> <<bare, empty, mixed, plain>>]),
         Obj([total_calls |-> 2, total_cost |-> 5,
              total_duration_minutes |-> 0,
              recent_calls |-> <<bare, empty>>]),
         Obj([total_calls |-> 1, total_cost |-> 1]),
         Obj([total_calls |-> 2, total_cost |-> 7,
              total_duration_minutes |-> 3,
              recent_calls |-> <<plain, mixed>>])}

\* 200-bodies of the calls source
CallsBodies ==
    CallSummaries \cup {Obj([error |-> "VAPI request failed"]), InvalidJson}

\* 200-bodies of POST /internal-api/integrations/vapi/analytics
AnalyticsBodies == {Obj([results |-> 1]), InvalidJson}

VA_Bodies(src) == IF src = "calls" THEN CallsBodies ELSE AnalyticsBodies

VapiNotConfigured == Str("VAPI API Key not configured. Go to Settings to add it.")

VapiFailed == Str("Failed to fetch VAPI data")

VapiNoConnection == Str("Failed to connect to VAPI API")

VA_Init ==
    /\ va_pc = "idle"
    /\ va_net = [s \in VA_Sources |-> NoFetch]
    /\ va_callData = Null
    /\ va_analytics = Null
    /\ va_loading = TRUE
    /\ va_error = Null

\* finally { setLoading(false) }
VA_Finally ==
    /\ va_loading' = FALSE
    /\ va_pc' = "done"

\* catch: setError("Failed to connect to VAPI API"), then finally
VA_Catch ==
    /\ va_error' = VapiNoConnection
    /\ VA_Finally

\* the code after the calls branch: if (analyticsRes.ok) await its json()
VA_ToAnalytics ==
    IF Ok(va_net["analytics"])
    THEN va_pc' = "analyticsJson" /\ va_loading' = va_loading
    ELSE VA_Finally

\* mount: both fetches are issued and Promise.all is awaited
VA_Mount ==
    /\ view = "VapiAnalytics" /\ mounted = "no"
    /\ mounted' = "yes"
    /\ va_pc' = "awaitAll"
    /\ va_net' = [s \in VA_Sources |-> PendingFetch]
    /\ UNCHANGED <<va_callData, va_analytics, va_loading, va_error,
                   view, applied>>
    /\ Frame({"VapiAnalytics"})

\* one of the two fetch promises settles
VA_Settle ==
    /\ view = "VapiAnalytics"
    /\ \E src \in VA_Sources :
        /\ va_net[src].k = "pending"
        /\ \E r \in Outcomes(VA_Bodies(src)) :
              va_net' = [va_net EXCEPT ![src] = r]
    /\ UNCHANGED <<va_pc, va_callData, va_analytics, va_loading, va_error>>
    /\ UNCHANGED <<view, mounted, applied>>
    /\ Frame({"VapiAnalytics"})

\* Promise.all rejected
VA_JoinRejected ==
    /\ view = "VapiAnalytics" /\ va_pc = "awaitAll"
    /\ AllRejected(va_net, VA_Sources)
    /\ VA_Catch
    /\ UNCHANGED <<va_net, va_callData, va_analytics>>
    /\ UNCHANGED <<view, mounted, applied>>
    /\ Frame({"VapiAnalytics"})

\* the error the calls branch sets for a response that is not ok
VA_StatusError(status) ==
    IF status = 400 THEN VapiNotConfigured ELSE VapiFailed

\* Promise.all fulfilled: the calls branch on a response that is ok awaits
\* json(); otherwise it sets the error of the status and goes on
VA_JoinFulfilled ==
    /\ view = "VapiAnalytics" /\ va_pc = "awaitAll"
    /\ AllFulfilled(va_net, VA_Sources)
    /\ IF Ok(va_net["calls"])
       THEN /\ va_pc' = "callsJson"
            /\ UNCHANGED <<va_loading, va_error>>
       ELSE /\ va_error' = VA_StatusError(va_net["calls"].status)
            /\ VA_ToAnalytics
    /\ UNCHANGED <<va_net, va_callData, va_analytics>>
    /\ UNCHANGED <<view, mounted, applied>>
    /\ Frame({"VapiAnalytics"})

\* callsRes.json() settled: data.error ? setError(data.error) : setCallData
VA_CallsJson ==
    /\ view = "VapiAnalytics" /\ va_pc = "callsJson"
    /\ LET data == va_net["calls"].body IN
       IF data = InvalidJson
       THEN /\ VA_Catch
            /\ UNCHANGED <<va_callData, applied>>
       ELSE IF HasField(data, "error")
            THEN /\ va_error' = Str(data.f["error"])
                 /\ VA_ToAnalytics
                 /\ UNCHANGED <<va_callData, applied>>
            ELSE /\ va_callData' = data
                 /\ applied' = applied \cup {"calls"}
                 /\ va_error' = va_error
                 /\ VA_ToAnalytics
    /\ UNCHANGED <<va_net, va_analytics, view, mounted>>
    /\ Frame({"VapiAnalytics"})

\* setAnalytics(await analyticsRes.json())
VA_AnalyticsJson ==
    /\ view = "VapiAnalytics" /\ va_pc = "analyticsJson"
    /\ LET data == va_net["analytics"].body IN
       IF data = InvalidJson
       THEN /\ VA_Catch
            /\ UNCHANGED <<va_analytics, applied>>
       ELSE /\ va_analytics' = data
            /\ applied' = applied \cup {"analytics"}
            /\ va_error' = va_error
            /\ VA_Finally
    /\ UNCHANGED <<va_net, va_callData, view, mounted>>
    /\ Frame({"VapiAnalytics"})

\* a cost per minute without the zero-duration guard: x / 0 is Infinity
\* or NaN
VA_CostPerMinuteUnguarded(callData) ==
    LET minutes == IF HasField(callData, "total_duration_minutes")
                   THEN callData.f.total_duration_minutes ELSE 0
    IN  IF minutes = 0 \/ ~HasField(callData, "total_cost")
        THEN [t |-> "fixed", tenThousandths |-> <<>>]
        ELSE [t |-> "fixed",
              tenThousandths |-> <<(20000 * callData.f.total_cost + minutes)
                                      \div (2 * minutes)>>]

\* the Cost/Minute card, computed on every render:
\*   callData?.total_duration_minutes > 0
\*     ? (callData.total_cost / callData.total_duration_minutes).toFixed(4)
\*     : '0.00'
\* toFixed(4) gives the decimal string with four fractional digits nearest
\* to the value, kept as its number of ten-thousandths; the string of NaN
\* carries none
VA_CostPerMinute(callData) ==
    LET minutes == IF HasField(callData, "total_duration_minutes")
                   THEN callData.f.total_duration_minutes ELSE 0
    IN  IF minutes > 0
        THEN IF HasField(callData, "total_cost")
             THEN [t |-> "fixed",
                   tenThousandths |->
                       <<(20000 * callData.f.total_cost + minutes)
                            \div (2 * minutes)>>]
             ELSE [t |-> "fixed", tenThousandths |-> <<>>]
        ELSE Str("0.00")

\* a breakdown taken from the last call that has one (findLast)
VA_CostBreakdownOfLast(callData) ==
    IF ~HasField(callData, "recent_calls") THEN <<>>
    ELSE LET calls == callData.f.recent_calls
             withCost == {i \in DOMAIN calls :
                             /\ calls[i].costBreakdown # <<>>
                             /\ calls[i].costBreakdown[1] # <<>>}
         IN  IF withCost = {} THEN <<>>
             ELSE LET latest == CHOOSE i \in withCost :
                                   \A j \in withCost : j <= i
                  IN  <<SelectSeq(Entries(calls[latest].costBreakdown[1]),
                                  LAMBDA e : e.value.t = "number")>>

\* the Cost Breakdown card, computed on every render: none (<<>>) unless
\* some call of recent_calls has a costBreakdown with a key; else the
\* entries with typeof v === 'number' of the first such call (find)
VA_CostBreakdown(callData) ==
    IF ~HasField(callData, "recent_calls") THEN <<>>
    ELSE LET calls == callData.f.recent_calls
             withCost == {i \in DOMAIN calls :
                             /\ calls[i].costBreakdown # <<>>
                             /\ calls[i].costBreakdown[1] # <<>>}
         IN  IF withCost = {} THEN <<>>
             ELSE LET latest == CHOOSE i \in withCost :
                                   \A j \in withCost : i <= j
                  IN  <<SelectSeq(Entries(calls[latest].costBreakdown[1]),
                                  LAMBDA e : e.value.t = "number")>>

(***************************************************************************)
(* N8nExecutions: fetchData over the n8n executions source                 *)
(***************************************************************************)

N8nNotConfigured == Str("n8n API Key not configured. Go to Settings to add it.")

N8nFailed == Str("Failed to fetch n8n data")

N8nNoConnection == Str("Failed to connect to n8n API")

NE_Init ==
    /\ ne_pc = "idle"
    /\ ne_net = NoFetch
    /\ ne_data = Null
    /\ ne_loading = TRUE
    /\ ne_error = Null

\* the error set for a response that is not ok
NE_StatusError(status) ==
    IF status = 400 THEN N8nNotConfigured ELSE N8nFailed

\* mount: the fetch is issued
NE_Mount ==
    /\ view = "N8nExecutions" /\ mounted = "no"
    /\ mounted' = "yes"
    /\ ne_pc' = "awaitFetch"
    /\ ne_net' = PendingFetch
    /\ UNCHANGED <<ne_data, ne_loading, ne_error, view, applied>>
    /\ Frame({"N8nExecutions"})

\* the fetch promise settles
NE_Settle ==
    /\ view = "N8nExecutions"
    /\ ne_net.k = "pending"
    /\ \E r \in Outcomes(N8nBodies) : ne_net' = r
    /\ UNCHANGED <<ne_pc, ne_data, ne_loading, ne_error>>
    /\ UNCHANGED <<view, mounted, applied>>
    /\ Frame({"N8nExecutions"})

\* await fetch(...) is over: catch on rejection, json() on ok, else the
\* error of the status; finally { setLoading(false) }
NE_FetchSettled ==
    /\ view = "N8nExecutions" /\ ne_pc = "awaitFetch"
    /\ Settled(ne_net)
    /\ IF ne_net.k = "rejected"
       THEN /\ ne_error' = N8nNoConnection
            /\ ne_loading' = FALSE /\ ne_pc' = "done"
       ELSE IF Ok(ne_net)
            THEN /\ ne_pc' = "awaitJson"
                 /\ UNCHANGED <<ne_loading, ne_error>>
            ELSE /\ ne_error' = NE_StatusError(ne_net.status)
                 /\ ne_loading' = FALSE /\ ne_pc' = "done"
    /\ UNCHANGED <<ne_net, ne_data>>
    /\ UNCHANGED <<view, mounted, applied>>
    /\ Frame({"N8nExecutions"})

\* res.json() settled: d.error ? setError(d.error) : setData(d)
NE_Json ==
    /\ view = "N8nExecutions" /\ ne_pc = "awaitJson"
    /\ LET d == ne_net.body IN
       IF d = InvalidJson
       THEN /\ ne_error' = N8nNoConnection
            /\ UNCHANGED <<ne_data, applied>>
       ELSE IF /\ HasField(d, "error")
               /\ d.f.error \notin {Str(""), [t |-> "number", v |-> 0]}
            THEN /\ ne_error' = d.f.error
                 /\ UNCHANGED <<ne_data, applied>>
            ELSE /\ ne_data' = d
                 /\ applied' = applied \cup {"n8n"}
                 /\ ne_error' = ne_error
    /\ ne_loading' = FALSE
    /\ ne_pc' = "done"
    /\ UNCHANGED <<ne_net, view, mounted>>
    /\ Frame({"N8nExecutions"})

\* data.total_fetched > 0
\*     ? ((data.success / data.total_fetched) * 100).toFixed(1) : 0
\* computed on every render that has data.  toFixed(1) gives the decimal
\* string with one fractional digit nearest to the value (the larger one
\* when two are equally near), kept here as its number of tenths; the
\* string of NaN carries no tenths.  An absent total_fetched is undefined,
\* and undefined > 0 is false
NE_SuccessRate(data) ==
    LET total == IF HasField(data, "total_fetched")
                 THEN data.f.total_fetched ELSE 0
    IN  IF total > 0
        THEN IF HasField(data, "success")
             THEN [t |-> "fixed",
                   tenths |-> <<(2000 * data.f.success + total)
                                   \div (2 * total)>>]
             ELSE [t |-> "fixed", tenths |-> <<>>]
        ELSE [t |-> "number", v |-> 0]

RECURSIVE SortByValueTiesReversed(_)
\* a sort that places an entry before the entries of equal value
SortByValueTiesReversed(entries) ==
    IF entries = <<>> THEN <<>>
    ELSE LET e == entries[Len(entries)]
             rest == SortByValueTiesReversed(SubSeq(entries, 1,
                                                    Len(entries) - 1))
             k == Cardinality({i \in DOMAIN rest : rest[i].value > e.value})
         IN  SubSeq(rest, 1, k) \o <<e>> \o SubSeq(rest, k + 1, Len(rest))

RECURSIVE SortByValue(_)
\* entries.sort((a, b) => b.value - a.value): Array.prototype.sort is
\* stable, so an entry goes after every entry of greater or equal value
\* that preceded it
SortByValue(entries) ==
    IF entries = <<>> THEN <<>>
    ELSE LET e == entries[Len(entries)]
             rest == SortByValue(SubSeq(entries, 1, Len(entries) - 1))
             k == Cardinality({i \in DOMAIN rest : rest[i].value >= e.value})
         IN  SubSeq(rest, 1, k) \o <<e>> \o SubSeq(rest, k + 1, Len(rest))

\* the workflow chart series computed on every render that has data: the
\* entries of workflow_breakdown, the name cut to twenty characters plus
\* '...' when it is longer, sorted by count
NE_WorkflowData(data) ==
    IF HasField(data, "workflow_breakdown")
    THEN LET entries == Entries(data.f.workflow_breakdown)
         IN  SortByValue([i \in DOMAIN entries |->
                 [name |-> IF Len(entries[i].name) > 20
                           THEN SubSeq(entries[i].name, 1, 20) \o "..."
                           ELSE entries[i].name,
                  value |-> entries[i].value,
                  fullName |-> entries[i].name]])
    ELSE <<>>

(***************************************************************************)
(* Polling components.  A call of an async fetch function is a record in   *)
(* the component's list of calls until it returns; a fetch promise settles *)
(* and the code after `await` runs in one step.                            *)
(***************************************************************************)

\* how many calls of its fetch function a behaviour follows per component
MaxRequests == 2

\* seq without its i-th element
RemoveAt(seq, i) == SubSeq(seq, 1, i - 1) \o SubSeq(seq, i + 1, Len(seq))

\* a call that has issued its fetch and awaits it
NewCall(id, by) == [id |-> id, by |-> by, pc |-> "awaitFetch", body |-> Null]

\* the ways a polled GET can settle
PollOutcomes(bodies) ==
    {RejectedFetch, Resp(500, Null)} \cup {Resp(200, b) : b \in bodies}

(***************************************************************************)
(* SystemLogs                                                              *)
(***************************************************************************)

\* 200-bodies of GET /api/logs for the id-th request: the log lines of that
\* moment, an object without `logs`, and a body that is not JSON
LogsBodies(id) ==
    {Obj([logs |-> Arr(<<id>>)]), Obj([detail |-> "Not Found"]), InvalidJson}

SL_Init ==
    /\ sl_reqs = <<>>
    /\ sl_started = 0
    /\ sl_interval = <<>>
    /\ sl_logs = Arr(<<>>)
    /\ sl_loading = TRUE
    /\ sl_autoRefresh = TRUE

\* fetchLogs() is called: it issues its fetch
SL_Start(by) ==
    /\ sl_started < MaxRequests
    /\ sl_started' = sl_started + 1
    /\ sl_reqs' = Append(sl_reqs, NewCall(sl_started + 1, by))

\* the render evaluates logs.length once loading is false: it throws on
\* undefined, and React then tears the component down
SL_RenderThrows == ~sl_loading /\ ~IsArray(sl_logs)

\* an effect without a cleanup: the timer of the previous run stays
SL_CleanupMissing(timers) == timers

\* the cleanup of the effect, return () => clearInterval(interval): it
\* clears the timer the run it belongs to has set, the newest one
SL_Cleanup(timers) ==
    IF timers = <<>> THEN <<>> ELSE SubSeq(timers, 1, Len(timers) - 1)

\* the effect on [autoRefresh] runs (after the cleanup of its previous
\* run, if any): fetchLogs(), then setInterval of a callback that closes
\* over the autoRefresh of this render
SL_Effect(autoRefresh) ==
    /\ SL_Start("effect")
    /\ sl_interval' = Append(SL_Cleanup(sl_interval),
                             [autoRefresh |-> autoRefresh])

\* mount
SL_Mount ==
    /\ view = "SystemLogs" /\ mounted = "no"
    /\ mounted' = "yes"
    /\ SL_Effect(sl_autoRefresh)
    /\ UNCHANGED <<sl_logs, sl_loading, sl_autoRefresh, view, applied>>
    /\ Frame({"SystemLogs"})

\* the Live / Paused button: setAutoRefresh(!autoRefresh); the effect's
\* cleanup clears the interval and the effect runs again
SL_Toggle ==
    /\ view = "SystemLogs" /\ mounted = "yes"
    /\ ~SL_RenderThrows
    /\ sl_autoRefresh' = ~sl_autoRefresh
    /\ SL_Effect(~sl_autoRefresh)
    /\ UNCHANGED <<sl_logs, sl_loading>>
    /\ UNCHANGED <<view, mounted, applied>>
    /\ Frame({"SystemLogs"})

\* an active interval fires: if (autoRefresh) fetchLogs()
SL_Tick ==
    /\ view = "SystemLogs"
    /\ ~SL_RenderThrows
    /\ \E i \in DOMAIN sl_interval :
          IF sl_interval[i].autoRefresh
          THEN SL_Start("timer")
          ELSE UNCHANGED <<sl_reqs, sl_started>>
    /\ UNCHANGED <<sl_interval, sl_logs, sl_loading, sl_autoRefresh>>
    /\ UNCHANGED <<view, mounted, applied>>
    /\ Frame({"SystemLogs"})

\* the refresh button: onClick={fetchLogs}
SL_Refresh ==
    /\ view = "SystemLogs" /\ mounted = "yes"
    /\ ~SL_RenderThrows
    /\ SL_Start("click")
    /\ UNCHANGED <<sl_interval, sl_logs, sl_loading, sl_autoRefresh>>
    /\ UNCHANGED <<view, mounted, applied>>
    /\ Frame({"SystemLogs"})

\* a call's fetch settles: an ok response goes on to json(); otherwise
\* (catch, or nothing) finally { setLoading(false) } and the call returns
SL_FetchSettled ==
    /\ view = "SystemLogs"
    /\ \E i \in DOMAIN sl_reqs :
        /\ sl_reqs[i].pc = "awaitFetch"
        /\ \E r \in PollOutcomes(LogsBodies(sl_reqs[i].id)) :
            IF Ok(r)
            THEN /\ sl_reqs' = [sl_reqs EXCEPT ![i].pc = "awaitJson",
                                               ![i].body = r.body]
                 /\ sl_loading' = sl_loading
            ELSE /\ sl_reqs' = RemoveAt(sl_reqs, i)
                 /\ sl_loading' = FALSE
    /\ UNCHANGED <<sl_started, sl_interval, sl_logs, sl_autoRefresh>>
    /\ UNCHANGED <<view, mounted, applied>>
    /\ Frame({"SystemLogs"})

\* a call's json() settles: setLogs(data.logs), setLoading(false)
SL_Json ==
    /\ view = "SystemLogs"
    /\ \E i \in DOMAIN sl_reqs :
        /\ sl_reqs[i].pc = "awaitJson"
        /\ LET data == sl_reqs[i].body IN
           IF data = InvalidJson
           THEN UNCHANGED <<sl_logs, applied>>
           ELSE /\ sl_logs' = IF HasField(data, "logs")
                              THEN data.f["logs"] ELSE Null
                /\ applied' = applied \cup {"logs"}
        /\ sl_reqs' = RemoveAt(sl_reqs, i)
    /\ sl_loading' = FALSE
    /\ UNCHANGED <<sl_started, sl_interval, sl_autoRefresh, view, mounted>>
    /\ Frame({"SystemLogs"})

(***************************************************************************)
(* DocumentFeed                                                            *)
(***************************************************************************)

\* 200-bodies of GET /internal-api/documents for the id-th request
DocumentsBodies(id) ==
    {Arr(<<[id |-> id, confidence |-> 90, is_reviewed |-> FALSE]>>),
     Obj([detail |-> "Not Found"])}

DF_Init ==
    /\ df_reqs = <<>>
    /\ df_started = 0
    /\ df_interval = FALSE
    /\ df_sync = "idle"
    /\ df_latestCaseId \in
          IF view = "DocumentFeed" THEN {<<>>, <<1>>} ELSE {<<>>}
    /\ df_documents = Arr(<<>>)
    /\ df_loading = TRUE
    /\ df_syncing = FALSE

\* fetchDocuments() is called: it issues its fetch
DF_Start(by) ==
    /\ df_started < MaxRequests
    /\ df_started' = df_started + 1
    /\ df_reqs' = Append(df_reqs, NewCall(df_started + 1, by))

\* the render evaluates documents.filter(...): it throws on a non-array
DF_RenderThrows == ~IsArray(df_documents)

\* mount: fetchDocuments() and setInterval(fetchDocuments, 30000)
DF_Mount ==
    /\ view = "DocumentFeed" /\ mounted = "no"
    /\ mounted' = "yes"
    /\ DF_Start("effect")
    /\ df_interval' = TRUE
    /\ UNCHANGED <<df_sync, df_latestCaseId, df_documents, df_loading,
                   df_syncing, view, applied>>
    /\ Frame({"DocumentFeed"})

\* the interval fires: fetchDocuments(); a render that threw has torn the
\* component down and cleared it
DF_Tick ==
    /\ view = "DocumentFeed" /\ df_interval
    /\ ~DF_RenderThrows
    /\ DF_Start("timer")
    /\ UNCHANGED <<df_interval, df_sync, df_latestCaseId, df_documents,
                   df_loading, df_syncing>>
    /\ UNCHANGED <<view, mounted, applied>>
    /\ Frame({"DocumentFeed"})

\* a call's fetch settles
DF_FetchSettled ==
    /\ view = "DocumentFeed"
    /\ \E i \in DOMAIN df_reqs :
        /\ df_reqs[i].pc = "awaitFetch"
        /\ \E r \in PollOutcomes(DocumentsBodies(df_reqs[i].id)) :
            IF Ok(r)
            THEN /\ df_reqs' = [df_reqs EXCEPT ![i].pc = "awaitJson",
                                               ![i].body = r.body]
                 /\ df_loading' = df_loading
            ELSE /\ df_reqs' = RemoveAt(df_reqs, i)
                 /\ df_loading' = FALSE
    /\ UNCHANGED <<df_started, df_interval, df_sync, df_latestCaseId,
                   df_documents, df_syncing>>
    /\ UNCHANGED <<view, mounted, applied>>
    /\ Frame({"DocumentFeed"})

\* a call's json() settles: setDocuments(data), setLoading(false)
DF_Json ==
    /\ view = "DocumentFeed"
    /\ \E i \in DOMAIN df_reqs :
        /\ df_reqs[i].pc = "awaitJson"
        /\ df_documents' = df_reqs[i].body
        /\ df_reqs' = RemoveAt(df_reqs, i)
    /\ applied' = applied \cup {"documents"}
    /\ df_loading' = FALSE
    /\ UNCHANGED <<df_started, df_interval, df_sync, df_latestCaseId,
                   df_syncing, view, mounted>>
    /\ Frame({"DocumentFeed"})

\* the sync button (rendered with a latestCaseId, disabled while syncing):
\* setSyncing(true) and the POST
DF_Sync ==
    /\ view = "DocumentFeed" /\ mounted = "yes"
    /\ ~DF_RenderThrows
    /\ df_latestCaseId # <<>> /\ ~df_syncing
    /\ df_syncing' = TRUE
    /\ df_sync' = "awaitFetch"
    /\ UNCHANGED <<df_reqs, df_started, df_interval, df_latestCaseId,
                   df_documents, df_loading>>
    /\ UNCHANGED <<view, mounted, applied>>
    /\ Frame({"DocumentFeed"})

\* the POST settles: ok goes on to json(); otherwise finally
\* { setSyncing(false) }
DF_SyncSettled ==
    /\ view = "DocumentFeed" /\ df_sync = "awaitFetch"
    /\ \E ok \in BOOLEAN :
        IF ok
        THEN df_sync' = "awaitJson" /\ df_syncing' = df_syncing
        ELSE df_sync' = "idle" /\ df_syncing' = FALSE
    /\ UNCHANGED <<df_reqs, df_started, df_interval, df_latestCaseId,
                   df_documents, df_loading>>
    /\ UNCHANGED <<view, mounted, applied>>
    /\ Frame({"DocumentFeed"})

\* the POST's json() settles: fetchDocuments() unless parsing threw, then
\* finally { setSyncing(false) }
DF_SyncJson ==
    /\ view = "DocumentFeed" /\ df_sync = "awaitJson"
    /\ \E valid \in BOOLEAN :
        IF valid
        THEN DF_Start("sync")
        ELSE UNCHANGED <<df_reqs, df_started>>
    /\ df_sync' = "idle"
    /\ df_syncing' = FALSE
    /\ UNCHANGED <<df_interval, df_latestCaseId, df_documents, df_loading>>
    /\ UNCHANGED <<view, mounted, applied>>
    /\ Frame({"DocumentFeed"})

(***************************************************************************)
(* CaseNotes                                                               *)
(***************************************************************************)

Note1 == [id |-> 1, note |-> "called provider"]

\* 200-bodies of the notes proxy: a bare array, {results: [...]}, an object
\* without results, and a body that is not JSON
NotesBodies ==
    {Arr(<<Note1>>), Obj([results |-> <<Note1>>]),
     Obj([detail |-> "Not Found"]), InvalidJson}

\* the ways the notes fetch can settle
CN_Outcomes ==
    {RejectedFetch} \cup {Resp(200, b) : b \in NotesBodies}
                    \cup {Resp(st, Null) : st \in {401, 403, 404, 500}}

\* err.message of the Error thrown for a response that is not ok
CN_StatusError(status) ==
    IF status = 404
    THEN Str("Notes endpoint not found (404). Check proxy configuration.")
    ELSE IF status = 401 \/ status = 403
         THEN Str("Authentication failed. Please check backend logs.")
         ELSE Str("Failed to fetch notes: statusText")

CN_Init ==
    /\ cn_reqs = <<>>
    /\ cn_started = 0
    /\ cn_notes = <<>>
    /\ cn_loading = FALSE
    /\ cn_error = Null

\* fetchNotes() with a caseId: setLoading(true), setError(null), the fetch
CN_Start(by) ==
    /\ cn_started < MaxRequests
    /\ cn_started' = cn_started + 1
    /\ cn_reqs' = Append(cn_reqs, NewCall(cn_started + 1, by))
    /\ cn_loading' = TRUE
    /\ cn_error' = Null

\* mount: the effect on [caseId] calls fetchNotes()
CN_Mount ==
    /\ view = "CaseNotes" /\ mounted = "no"
    /\ mounted' = "yes"
    /\ CN_Start("effect")
    /\ UNCHANGED <<cn_notes, view, applied>>
    /\ Frame({"CaseNotes"})

\* the Refresh Notes button, disabled={loading}
CN_Refresh ==
    /\ view = "CaseNotes" /\ mounted = "yes"
    /\ ~cn_loading
    /\ CN_Start("click")
    /\ UNCHANGED cn_notes
    /\ UNCHANGED <<view, mounted, applied>>
    /\ Frame({"CaseNotes"})

\* a call's fetch settles: an ok response goes on to json(); a rejection or
\* the Error thrown for a non-ok response is caught: setError(err.message),
\* setLoading(false)
CN_FetchSettled ==
    /\ view = "CaseNotes"
    /\ \E i \in DOMAIN cn_reqs :
        /\ cn_reqs[i].pc = "awaitFetch"
        /\ \E r \in CN_Outcomes :
            IF Ok(r)
            THEN /\ cn_reqs' = [cn_reqs EXCEPT ![i].pc = "awaitJson",
                                               ![i].body = r.body]
                 /\ UNCHANGED <<cn_loading, cn_error>>
            ELSE /\ cn_reqs' = RemoveAt(cn_reqs, i)
                 /\ cn_error' = IF r.k = "rejected"
                                THEN Str("Failed to fetch")
                                ELSE CN_StatusError(r.status)
                 /\ cn_loading' = FALSE
    /\ UNCHANGED <<cn_started, cn_notes>>
    /\ UNCHANGED <<view, mounted, applied>>
    /\ Frame({"CaseNotes"})

\* a call's json() settles:
\* setNotes(Array.isArray(data) ? data : (data.results || []))
CN_Json ==
    /\ view = "CaseNotes"
    /\ \E i \in DOMAIN cn_reqs :
        /\ cn_reqs[i].pc = "awaitJson"
        /\ LET data == cn_reqs[i].body IN
           IF data = InvalidJson
           THEN /\ cn_error' = Str("Unexpected token in JSON")
                /\ UNCHANGED <<cn_notes, applied>>
           ELSE /\ cn_notes' = IF IsArray(data) THEN data.items
                               ELSE IF HasField(data, "results")
                                    THEN data.f["results"] ELSE <<>>
                /\ applied' = applied \cup {"notes"}
                /\ cn_error' = cn_error
        /\ cn_reqs' = RemoveAt(cn_reqs, i)
    /\ cn_loading' = FALSE
    /\ UNCHANGED <<cn_started, view, mounted>>
    /\ Frame({"CaseNotes"})

(***************************************************************************)
(* Automations                                                             *)
(***************************************************************************)

\* how many fetchData calls, POSTs and timers a behaviour follows
MaxCalls == 2

\* the sources of fetchData in the order their results are used
AU_Order == <<"status", "runs", "known-cases">>

AU_Sources == {AU_Order[i] : i \in DOMAIN AU_Order}

\* 200-bodies of the three workflow endpoints
AU_Bodies(src) ==
    IF src = "status" THEN {Obj([running |-> TRUE])}
    ELSE IF src = "runs"
         THEN {Obj([runs |-> <<[id |-> 1, status |-> "completed"]>>]),
               Obj([detail |-> "no runs"])}
         ELSE {Obj([cases |-> <<1, 2>>])}

\* one workflow that needs a Case ID and one that does not (WORKFLOWS)
Workflows ==
    {[id |-> "classification", needsCaseId |-> TRUE],
     [id |-> "case_checker", needsCaseId |-> FALSE]}

\* what the user may have typed into a workflow's Case ID input
CaseInputs == {"", "42"}

AU_Init ==
    /\ au_calls = <<>>
    /\ au_started = 0
    /\ au_togglePosts = 0
    /\ au_triggerPosts = 0
    /\ au_timers = 0
    /\ au_schedulerStatus = Null
    /\ au_runs = <<>>
    /\ au_knownCases = <<>>
    /\ au_loading = TRUE
    /\ au_triggeringWorkflow = Null

\* fetchData calls started or still to be started by a POST or a timer
AU_Budget == au_started + au_togglePosts + au_triggerPosts + au_timers

\* fetchData() is called: setLoading(true), the three fetches are issued
\* and Promise.all is awaited
AU_Start(by) ==
    /\ au_started' = au_started + 1
    /\ au_calls' = Append(au_calls,
                          [by |-> by,
                           net |-> [s \in AU_Sources |-> PendingFetch],
                           pc |-> "awaitAll", applied |-> {}])
    /\ au_loading' = TRUE

\* the call's place after the k-th statement of the chain
\*   if (statusRes.ok) ...; if (runsRes.ok) ...; if (casesRes.ok) ...
\* "return" when no later response is ok
AU_Stage(net, k) ==
    LET oks == {j \in k..Len(AU_Order) : Ok(net[AU_Order[j]])} IN
    IF oks = {} THEN "return"
    ELSE AU_Order[CHOOSE j \in oks : \A m \in oks : j <= m]

\* the i-th call goes on with `call` as its new record, or returns through
\* finally { setLoading(false) }
AU_Continue(i, call) ==
    IF call.pc = "return"
    THEN au_calls' = RemoveAt(au_calls, i) /\ au_loading' = FALSE
    ELSE au_calls' = [au_calls EXCEPT ![i] = call] /\ au_loading' = au_loading

\* mount: the effect calls fetchData()
AU_Mount ==
    /\ view = "Automations" /\ mounted = "no"
    /\ mounted' = "yes"
    /\ AU_Start("effect")
    /\ UNCHANGED <<au_togglePosts, au_triggerPosts, au_timers,
                   au_schedulerStatus, au_runs, au_knownCases,
                   au_triggeringWorkflow, view, applied>>
    /\ Frame({"Automations"})

\* the Refresh button, rendered only while loading is false
AU_Refresh ==
    /\ view = "Automations" /\ mounted = "yes"
    /\ ~au_loading
    /\ AU_Budget < MaxCalls
    /\ AU_Start("click")
    /\ UNCHANGED <<au_togglePosts, au_triggerPosts, au_timers,
                   au_schedulerStatus, au_runs, au_knownCases,
                   au_triggeringWorkflow>>
    /\ UNCHANGED <<view, mounted, applied>>
    /\ Frame({"Automations"})

\* the Start / Stop button: toggleScheduler issues its POST
AU_Toggle ==
    /\ view = "Automations" /\ mounted = "yes"
    /\ ~au_loading
    /\ AU_Budget < MaxCalls
    /\ au_togglePosts' = au_togglePosts + 1
    /\ UNCHANGED <<au_calls, au_started, au_triggerPosts, au_timers,
                   au_schedulerStatus, au_runs, au_knownCases, au_loading,
                   au_triggeringWorkflow>>
    /\ UNCHANGED <<view, mounted, applied>>
    /\ Frame({"Automations"})

\* a toggleScheduler POST settles: if (res.ok) fetchData()
AU_ToggleSettled ==
    /\ view = "Automations" /\ au_togglePosts > 0
    /\ au_togglePosts' = au_togglePosts - 1
    /\ \E ok \in BOOLEAN :
        IF ok THEN AU_Start("toggle") ELSE UNCHANGED <<au_calls, au_started, au_loading>>
    /\ UNCHANGED <<au_triggerPosts, au_timers, au_schedulerStatus, au_runs,
                   au_knownCases, au_triggeringWorkflow>>
    /\ UNCHANGED <<view, mounted, applied>>
    /\ Frame({"Automations"})

\* a Run button (disabled while triggeringWorkflow is its workflow):
\* setTriggeringWorkflow(wf.id); without a needed Case ID alert, reset and
\* return; otherwise the POST
AU_Trigger ==
    /\ view = "Automations" /\ mounted = "yes"
    /\ ~au_loading
    /\ \E wf \in Workflows, caseId \in CaseInputs :
        /\ au_triggeringWorkflow # Str(wf.id)
        /\ IF wf.needsCaseId /\ caseId = ""
           THEN /\ au_triggeringWorkflow' = Null
                /\ au_triggerPosts' = au_triggerPosts
           ELSE /\ AU_Budget < MaxCalls
                /\ au_triggeringWorkflow' = Str(wf.id)
                /\ au_triggerPosts' = au_triggerPosts + 1
    /\ UNCHANGED <<au_calls, au_started, au_togglePosts, au_timers,
                   au_schedulerStatus, au_runs, au_knownCases, au_loading>>
    /\ UNCHANGED <<view, mounted, applied>>
    /\ Frame({"Automations"})

\* a triggerWorkflow POST settles: if (res.ok) setTimeout(fetchData, 2000);
\* finally { setTriggeringWorkflow(null) }
AU_TriggerSettled ==
    /\ view = "Automations" /\ au_triggerPosts > 0
    /\ au_triggerPosts' = au_triggerPosts - 1
    /\ \E ok \in BOOLEAN : au_timers' = IF ok THEN au_timers + 1 ELSE au_timers
    /\ au_triggeringWorkflow' = Null
    /\ UNCHANGED <<au_calls, au_started, au_togglePosts, au_schedulerStatus,
                   au_runs, au_knownCases, au_loading>>
    /\ UNCHANGED <<view, mounted, applied>>
    /\ Frame({"Automations"})

\* a 2 s timer fires: fetchData()
AU_Timer ==
    /\ view = "Automations" /\ au_timers > 0
    /\ au_timers' = au_timers - 1
    /\ AU_Start("timer")
    /\ UNCHANGED <<au_togglePosts, au_triggerPosts, au_schedulerStatus,
                   au_runs, au_knownCases, au_triggeringWorkflow>>
    /\ UNCHANGED <<view, mounted, applied>>
    /\ Frame({"Automations"})

\* one fetch of a call settles; Promise.all rejects with it (catch, then
\* finally) or, once it has fulfilled, the chain of ok checks is entered
AU_FetchSettled ==
    /\ view = "Automations"
    /\ \E i \in DOMAIN au_calls, src \in AU_Sources :
        /\ au_calls[i].pc = "awaitAll"
        /\ au_calls[i].net[src].k = "pending"
        /\ \E r \in PollOutcomes(AU_Bodies(src)) :
            LET net == [au_calls[i].net EXCEPT ![src] = r] IN
            IF AllRejected(net, AU_Sources)
            THEN AU_Continue(i, [au_calls[i] EXCEPT !.pc = "return"])
            ELSE IF AllFulfilled(net, AU_Sources)
                 THEN AU_Continue(i, [au_calls[i] EXCEPT
                                        !.net = net, !.pc = AU_Stage(net, 1)])
                 ELSE AU_Continue(i, [au_calls[i] EXCEPT !.net = net])
    /\ UNCHANGED <<au_started, au_togglePosts, au_triggerPosts, au_timers,
                   au_schedulerStatus, au_runs, au_knownCases,
                   au_triggeringWorkflow>>
    /\ UNCHANGED <<view, mounted, applied>>
    /\ Frame({"Automations"})

\* the json() a call awaits settles:
\*   setSchedulerStatus(data) | setRuns(data.runs || []) |
\*   setKnownCases(data.cases || [])
AU_Json ==
    /\ view = "Automations"
    /\ \E i \in DOMAIN au_calls, k \in DOMAIN AU_Order :
        /\ au_calls[i].pc = AU_Order[k]
        /\ LET data == au_calls[i].net[AU_Order[k]].body IN
            /\ au_schedulerStatus' = IF k = 1 THEN data ELSE au_schedulerStatus
            /\ au_runs' = IF k # 2 THEN au_runs
                          ELSE IF HasField(data, "runs")
                               THEN data.f["runs"] ELSE <<>>
            /\ au_knownCases' = IF k # 3 THEN au_knownCases
                                ELSE IF HasField(data, "cases")
                                     THEN data.f["cases"] ELSE <<>>
        /\ AU_Continue(i, [au_calls[i] EXCEPT
                             !.applied = @ \cup {AU_Order[k]},
                             !.pc = AU_Stage(au_calls[i].net, k + 1)])
    /\ UNCHANGED <<au_started, au_togglePosts, au_triggerPosts, au_timers,
                   au_triggeringWorkflow>>
    /\ UNCHANGED <<view, mounted, applied>>
    /\ Frame({"Automations"})

(***************************************************************************)
(* CaseTable                                                               *)
(***************************************************************************)

\* how many DELETE requests a behaviour follows
MaxDeletes == 2

\* 200-bodies of GET /internal-api/cases as CaseTable reads them: the first
\* n of three rows, an error object, and a body that is not JSON
CT_CasesBodies ==
    LET rows == <<[id |-> 11, status |-> "Open"],
                  [id |-> 12, status |-> "Closed"],
                  [id |-> 13, status |-> "Open"]>>
    IN  {Arr(SubSeq(rows, 1, n)) : n \in 0..Len(rows)}
            \cup {Obj([detail |-> "Not Found"]), InvalidJson}

CT_Init ==
    /\ ct_pc = "idle"
    /\ ct_body = Null
    /\ ct_dels = <<>>
    /\ ct_started = 0
    /\ ct_last = Null
    /\ ct_cases = Arr(<<>>)
    /\ ct_loading = TRUE
    /\ ct_deleting = <<>>

\* a filter that cuts the list at the first match
CT_FilterCutsTail(prev, caseId) ==
    IF \E i \in DOMAIN prev : prev[i].id = caseId
    THEN SubSeq(prev, 1,
                (CHOOSE i \in DOMAIN prev :
                    /\ prev[i].id = caseId
                    /\ \A j \in 1..(i - 1) : prev[j].id # caseId) - 1)
    ELSE prev

\* prev.filter(c => c.id !== caseId)
CT_Filter(prev, caseId) == SelectSeq(prev, LAMBDA c : c.id # caseId)

\* mount: the effect calls fetchCases()
CT_Mount ==
    /\ view = "CaseTable" /\ mounted = "no"
    /\ mounted' = "yes"
    /\ ct_pc' = "awaitFetch"
    /\ UNCHANGED <<ct_body, ct_dels, ct_started, ct_last, ct_cases,
                   ct_loading, ct_deleting, view, applied>>
    /\ Frame({"CaseTable"})

\* the fetch of fetchCases settles: an ok response goes on to json(), any
\* other outcome falls to finally { setLoading(false) }
CT_FetchSettled ==
    /\ view = "CaseTable" /\ ct_pc = "awaitFetch"
    /\ \E r \in PollOutcomes(CT_CasesBodies) :
        IF Ok(r)
        THEN ct_pc' = "awaitJson" /\ ct_body' = r.body
                /\ ct_loading' = ct_loading
        ELSE ct_pc' = "done" /\ ct_body' = ct_body /\ ct_loading' = FALSE
    /\ UNCHANGED <<ct_dels, ct_started, ct_last, ct_cases, ct_deleting>>
    /\ UNCHANGED <<view, mounted, applied>>
    /\ Frame({"CaseTable"})

\* response.json() settles: setCases(data), or the catch for a body that
\* is not JSON; then finally.  A value that is not an array has no map():
\* the next render throws and React removes the component
CT_Json ==
    /\ view = "CaseTable" /\ ct_pc = "awaitJson"
    /\ ct_pc' = "done"
    /\ ct_loading' = FALSE
    /\ IF ct_body = InvalidJson
       THEN UNCHANGED <<ct_cases, mounted, applied>>
       ELSE /\ ct_cases' = ct_body
            /\ applied' = applied \cup {"cases"}
            /\ mounted' = IF mounted = "yes" /\ ~IsArray(ct_body)
                          THEN "gone" ELSE mounted
    /\ UNCHANGED <<ct_body, ct_dels, ct_started, ct_last, ct_deleting, view>>
    /\ Frame({"CaseTable"})

\* the trash button of a row (disabled while deleting is that row's id):
\* without the user's confirmation nothing happens; otherwise
\* setDeleting(caseId) and the DELETE is issued
CT_DeleteCase ==
    /\ view = "CaseTable" /\ mounted = "yes"
    /\ IsArray(ct_cases)
    /\ \E i \in DOMAIN ct_cases.items, confirmed \in BOOLEAN :
        LET caseId == ct_cases.items[i].id IN
        /\ ct_deleting # <<caseId>>
        /\ IF confirmed
           THEN /\ ct_started < MaxDeletes
                /\ ct_started' = ct_started + 1
                /\ ct_deleting' = <<caseId>>
                /\ ct_dels' = Append(ct_dels, [kind |-> "case", id |-> caseId])
           ELSE UNCHANGED <<ct_started, ct_deleting, ct_dels>>
    /\ UNCHANGED <<ct_pc, ct_body, ct_last, ct_cases, ct_loading>>
    /\ UNCHANGED <<view, mounted, applied>>
    /\ Frame({"CaseTable"})

\* the Delete All Cases button, rendered while cases.length > 0
CT_DeleteAll ==
    /\ view = "CaseTable" /\ mounted = "yes"
    /\ IsArray(ct_cases) /\ Len(ct_cases.items) > 0
    /\ \E confirmed \in BOOLEAN :
        IF confirmed
        THEN /\ ct_started < MaxDeletes
             /\ ct_started' = ct_started + 1
             /\ ct_dels' = Append(ct_dels, [kind |-> "all", id |-> 0])
        ELSE UNCHANGED <<ct_started, ct_dels>>
    /\ UNCHANGED <<ct_pc, ct_body, ct_last, ct_cases, ct_loading,
                   ct_deleting>>
    /\ UNCHANGED <<view, mounted, applied>>
    /\ Frame({"CaseTable"})

\* a DELETE settles and its handler runs to the end:
\*   handleDeleteCase: if (res.ok) setCases(prev => prev.filter(...));
\*                     finally { setDeleting(null) }
\*   handleDeleteAll:  if (res.ok) setCases([])
CT_DeleteSettled ==
    /\ view = "CaseTable"
    /\ \E i \in DOMAIN ct_dels, res \in {"ok", "not ok", "rejected"} :
        LET req == ct_dels[i] IN
        /\ ct_dels' = RemoveAt(ct_dels, i)
        /\ ct_last' = [req |-> req, res |-> res]
        /\ ct_cases' = IF res # "ok" THEN ct_cases
                       ELSE IF req.kind = "all" THEN Arr(<<>>)
                            ELSE Arr(CT_Filter(ct_cases.items, req.id))
        /\ ct_deleting' = IF req.kind = "case" THEN <<>> ELSE ct_deleting
    /\ UNCHANGED <<ct_pc, ct_body, ct_started, ct_loading>>
    /\ UNCHANGED <<view, mounted, applied>>
    /\ Frame({"CaseTable"})

(***************************************************************************)
(* App                                                                     *)
(***************************************************************************)

\* the ids of navItems, the tabs DashboardLayout offers
APP_Tabs ==
    {"dashboard", "cases", "n8n", "openai", "vapi", "costs", "settings",
     "logs"}

\* the ids of the rows a CaseTable may show
APP_CaseIds == {0, 11, 12}

APP_Init ==
    /\ app_authenticated = FALSE
    /\ app_activeTab = "dashboard"
    /\ app_selectedCaseId = <<>>

\* a tab change that keeps the selection
APP_SelectedKept(tab, selectedCaseId) == selectedCaseId

\* handleTabChange: if (tab !== 'cases') setSelectedCaseId(null)
APP_SelectedAfterTab(tab, selectedCaseId) ==
    IF tab # "cases" THEN <<>> ELSE selectedCaseId

\* what App returns: LoginPage, or the layout around the child of activeTab
APP_Render(authenticated, activeTab, selectedCaseId) ==
    IF ~authenticated THEN "LoginPage"
    ELSE IF activeTab = "dashboard" THEN "StatsOverview"
    ELSE IF activeTab = "cases"
         THEN IF selectedCaseId # <<>> /\ selectedCaseId # <<0>>
              THEN "CaseDetails" ELSE "CaseTable"
    ELSE IF activeTab = "n8n" THEN "N8nExecutions"
    ELSE IF activeTab = "openai" THEN "OpenAiUsage"
    ELSE IF activeTab = "costs" THEN "CostDashboard"
    ELSE IF activeTab = "settings" THEN "SettingsForm"
    ELSE IF activeTab = "logs" THEN "SystemLogs"
    ELSE "nothing"

\* first render: the initializer of authenticated reads sessionStorage
APP_Mount ==
    /\ view = "App" /\ mounted = "no"
    /\ mounted' = "yes"
    /\ app_authenticated' \in BOOLEAN
    /\ UNCHANGED <<app_activeTab, app_selectedCaseId, view, applied>>
    /\ Frame({"App"})

\* LoginPage calls onLogin after an ok login response
APP_Login ==
    /\ view = "App" /\ mounted = "yes"
    /\ APP_Render(app_authenticated, app_activeTab, app_selectedCaseId)
            = "LoginPage"
    /\ app_authenticated' = TRUE
    /\ UNCHANGED <<app_activeTab, app_selectedCaseId>>
    /\ UNCHANGED <<view, mounted, applied>>
    /\ Frame({"App"})

\* a nav button of DashboardLayout: handleTabChange(tab)
APP_HandleTabChange ==
    /\ view = "App" /\ mounted = "yes"
    /\ app_authenticated
    /\ \E tab \in APP_Tabs :
        /\ app_activeTab' = tab
        /\ app_selectedCaseId' = APP_SelectedAfterTab(tab, app_selectedCaseId)
    /\ UNCHANGED <<app_authenticated, view, mounted, applied>>
    /\ Frame({"App"})

\* a row of CaseTable is clicked: onCaseSelect(c.id) is setSelectedCaseId
APP_CaseSelect ==
    /\ view = "App" /\ mounted = "yes"
    /\ APP_Render(app_authenticated, app_activeTab, app_selectedCaseId)
            = "CaseTable"
    /\ \E id \in APP_CaseIds : app_selectedCaseId' = <<id>>
    /\ applied' = applied \cup {"selectedCaseId"}
    /\ UNCHANGED <<app_authenticated, app_activeTab, view, mounted>>
    /\ Frame({"App"})

\* Back to Cases in CaseDetails: onBack is setSelectedCaseId(null)
APP_Back ==
    /\ view = "App" /\ mounted = "yes"
    /\ APP_Render(app_authenticated, app_activeTab, app_selectedCaseId)
            = "CaseDetails"
    /\ app_selectedCaseId' = <<>>
    /\ UNCHANGED <<app_authenticated, app_activeTab>>
    /\ UNCHANGED <<view, mounted, applied>>
    /\ Frame({"App"})

\* Logout in DashboardLayout: the sessionStorage item is removed and the
\* page reloads, App starts over unauthenticated
APP_Logout ==
    /\ view = "App" /\ mounted = "yes"
    /\ app_authenticated
    /\ app_authenticated' = FALSE
    /\ app_activeTab' = "dashboard"
    /\ app_selectedCaseId' = <<>>
    /\ UNCHANGED <<view, mounted, applied>>
    /\ Frame({"App"})

(***************************************************************************)
(* Unmount, and the specification                                          *)
(***************************************************************************)

Views ==
    {"StatsOverview", "CaseDetails", "CostDashboard", "VapiAnalytics",
     "N8nExecutions", "SystemLogs", "DocumentFeed", "CaseNotes",
     "Automations", "CaseTable", "App"}

\* the host stops rendering the component: the effects' cleanups run
\* (clearInterval in SystemLogs and DocumentFeed; no other component has one)
Unmount ==
    /\ mounted = "yes"
    /\ mounted' = "gone"
    /\ sl_interval' = SL_Cleanup(sl_interval)
    /\ df_interval' = FALSE
    /\ UNCHANGED <<view, applied>>
    /\ Frame({"SystemLogs", "DocumentFeed"})
    /\ UNCHANGED <<sl_reqs, sl_started, sl_logs, sl_loading, sl_autoRefresh>>
    /\ UNCHANGED <<df_reqs, df_started, df_sync, df_latestCaseId,
                   df_documents, df_loading, df_syncing>>

Init ==
    /\ view \in Views
    /\ mounted = "no"
    /\ applied = {}
    /\ SO_Init
    /\ CD_Init
    /\ Cost_Init
    /\ VA_Init
    /\ NE_Init
    /\ SL_Init
    /\ DF_Init
    /\ CN_Init
    /\ AU_Init
    /\ CT_Init
    /\ APP_Init

Next ==
    \/ SO_Mount
    \/ SO_Settle
    \/ SO_JoinRejected
    \/ SO_JoinFulfilled
    \/ SO_CasesJson
    \/ SO_N8nJson
    \/ CD_Mount
    \/ CD_Settle
    \/ CD_CaseSettled
    \/ CD_CaseJson
    \/ CD_JoinRejected
    \/ CD_JoinFulfilled
    \/ CD_RelatedJson
    \/ Cost_Mount
    \/ Cost_Settle
    \/ Cost_FetchSettled
    \/ Cost_Json
    \/ VA_Mount
    \/ VA_Settle
    \/ VA_JoinRejected
    \/ VA_JoinFulfilled
    \/ VA_CallsJson
    \/ VA_AnalyticsJson
    \/ NE_Mount
    \/ NE_Settle
    \/ NE_FetchSettled
    \/ NE_Json
    \/ SL_Mount
    \/ SL_Toggle
    \/ SL_Tick
    \/ SL_Refresh
    \/ SL_FetchSettled
    \/ SL_Json
    \/ DF_Mount
    \/ DF_Tick
    \/ DF_FetchSettled
    \/ DF_Json
    \/ DF_Sync
    \/ DF_SyncSettled
    \/ DF_SyncJson
    \/ CN_Mount
    \/ CN_Refresh
    \/ CN_FetchSettled
    \/ CN_Json
    \/ AU_Mount
    \/ AU_Refresh
    \/ AU_Toggle
    \/ AU_ToggleSettled
    \/ AU_Trigger
    \/ AU_TriggerSettled
    \/ AU_Timer
    \/ AU_FetchSettled
    \/ AU_Json
    \/ CT_Mount
    \/ CT_FetchSettled
    \/ CT_Json
    \/ CT_DeleteCase
    \/ CT_DeleteAll
    \/ CT_DeleteSettled
    \/ APP_Mount
    \/ APP_Login
    \/ APP_HandleTabChange
    \/ APP_CaseSelect
    \/ APP_Back
    \/ APP_Logout
    \/ Unmount

Spec == Init /\ [][Next]_vars

\* timers fire and promise continuations run; what the user does (clicks,
\* navigating away) is not forced
SystemStep ==
    \/ SO_Settle \/ SO_JoinRejected \/ SO_JoinFulfilled
    \/ SO_CasesJson \/ SO_N8nJson
    \/ CD_Settle \/ CD_CaseSettled \/ CD_CaseJson
    \/ CD_JoinRejected \/ CD_JoinFulfilled \/ CD_RelatedJson
    \/ Cost_Settle \/ Cost_FetchSettled \/ Cost_Json
    \/ VA_Settle \/ VA_JoinRejected \/ VA_JoinFulfilled
    \/ VA_CallsJson \/ VA_AnalyticsJson
    \/ NE_Settle \/ NE_FetchSettled \/ NE_Json
    \/ SL_Tick \/ SL_FetchSettled \/ SL_Json
    \/ DF_Tick \/ DF_FetchSettled \/ DF_Json
    \/ DF_SyncSettled \/ DF_SyncJson
    \/ CN_FetchSettled \/ CN_Json
    \/ AU_ToggleSettled \/ AU_TriggerSettled \/ AU_Timer
    \/ AU_FetchSettled \/ AU_Json
    \/ CT_FetchSettled \/ CT_Json \/ CT_DeleteSettled

FairSpec == Spec /\ WF_vars(SystemStep)

(***************************************************************************)
(* Partial failure of a refresh cycle                                      *)
(***************************************************************************)

\* C1: when StatsOverview.fetchData has finished a cycle in which source X
\* failed (rejected fetch or non-ok response) and source Y answered 200 with
\* an array, the state holds the fresh Y-derived data and the X-derived data
\* is untouched.
C1_PartialFailureKeepsSibling ==
    (view = "StatsOverview" /\ so_pc = "done") =>
        \A x \in SO_Sources : \A y \in SO_Sources \ {x} :
            (/\ Failed(so_net[x])
             /\ Ok(so_net[y]) /\ IsArray(so_net[y].body))
            => /\ y \in applied
               /\ x \notin applied
               /\ y = "n8n" =>
                    /\ so_n8nExecutions = so_net[y].body.items
                    /\ so_stats = InitialStats /\ so_charts = InitialCharts
               /\ y = "cases" =>
                    /\ so_stats = SO_Stats(so_net[y].body.items)
                    /\ so_charts = SO_Charts(so_net[y].body.items)
                    /\ so_n8nExecutions = <<>>

\* C2: a rejected fetch or a non-2xx response of one source never aborts
\* the fetch or the processing of its siblings: once fetchData of
\* StatsOverview, CaseDetails or CostDashboard has returned from a cycle in
\* which a source failed and no body was malformed, every sibling was
\* fetched and every sibling that answered 200 has its result applied.
C2_SiblingsIndependent ==
    /\ (view = "StatsOverview" /\ so_pc = "done"
        /\ \A z \in SO_Sources : Ok(so_net[z]) => IsArray(so_net[z].body)) =>
          \A x \in SO_Sources : \A y \in SO_Sources \ {x} :
              Failed(so_net[x]) =>
                  /\ so_net[y].k # "none"
                  /\ Ok(so_net[y]) => y \in applied
    /\ (view = "CaseDetails" /\ cd_pc = "done"
        /\ \A z \in CD_Sources : cd_net[z].body # InvalidJson) =>
          \A x \in CD_Sources : \A y \in CD_Sources \ {x} :
              Failed(cd_net[x]) =>
                  /\ cd_net[y].k # "none"
                  /\ Ok(cd_net[y]) => y \in applied
    /\ (view = "CostDashboard" /\ cost_pc = "done"
        /\ \A z \in Cost_Sources : cost_net[z].body # InvalidJson
        /\ Ok(cost_net["token_usage"]) => IsArray(cost_net["token_usage"].body)) =>
          \A x \in Cost_Sources : \A y \in Cost_Sources \ {x} :
              Failed(cost_net[x]) =>
                  /\ cost_net[y].k # "none"
                  /\ Ok(cost_net[y]) => y \in applied

\* C3: after a cycle in which every source failed, the last good state is
\* kept (here the state before the cycle: nothing was written) and the
\* degraded condition is visible: VapiAnalytics shows an error, and what
\* StatsOverview renders differs from what it renders after a cycle in
\* which both sources succeeded.
C3_AllFailedIsDegraded ==
    /\ (view = "StatsOverview" /\ so_pc = "done"
        /\ \A s \in SO_Sources : Failed(so_net[s])) =>
          /\ so_stats = InitialStats /\ so_charts = InitialCharts
          /\ so_n8nExecutions = <<>>
          /\ SO_Rendered \notin
               {[loading |-> FALSE, stats |-> SO_Stats(c.items),
                 charts |-> SO_Charts(c.items), executions |-> e.items] :
                    c \in {b \in CasesBodies : IsArray(b)},
                    e \in {b \in N8nBodies : IsArray(b)}}
    /\ (view = "VapiAnalytics" /\ va_pc = "done"
        /\ \A s \in VA_Sources : Failed(va_net[s])) =>
          /\ va_callData = Null /\ va_analytics = Null
          /\ va_error # Null

\* C4: while a cycle of StatsOverview or CostDashboard is in flight, what
\* the component renders holds nothing of that cycle: the loading
\* placeholder, or the state before the cycle.
C4_AtomicPublish ==
    /\ (view = "StatsOverview" /\ so_pc \notin {"idle", "done"}) =>
          SO_Rendered = [loading |-> TRUE]
    /\ (view = "CostDashboard" /\ cost_pc \notin {"idle", "done"}) =>
          Cost_Rendered = [tokenUsage |-> <<>>, openAiStats |-> Null,
                           n8nStats |-> Null]

(***************************************************************************)
(* Dispatch, join and refresh                                              *)
(***************************************************************************)

C6_RefreshDeduplicated ==
    /\ view = "SystemLogs" =>
        \A j \in DOMAIN sl_reqs : sl_reqs[j].by = "click" => j = 1
    /\ view = "Automations" =>
        \A j \in DOMAIN au_calls : au_calls[j].by = "click" => j = 1
    /\ view = "CaseNotes" =>
        \A j \in DOMAIN cn_reqs : cn_reqs[j].by = "click" => j = 1

\* C7: after the component is unmounted no set-state call of SystemLogs,
\* DocumentFeed or Automations changes state any more, and no pending timer
\* of Automations fires.
C7_NoLateWrites ==
    [][mounted = "gone" =>
         /\ UNCHANGED <<sl_logs, sl_loading>>
         /\ UNCHANGED <<df_documents, df_loading, df_syncing>>
         /\ UNCHANGED <<au_schedulerStatus, au_runs, au_knownCases,
                        au_loading, au_triggeringWorkflow>>
         /\ au_timers' >= au_timers]_vars

\* C8, for the summary surface: while StatsOverview stays mounted, every
\* published state is eventually followed by a new fetch.
C8_PublishedThenFetching ==
    [](view = "StatsOverview" /\ mounted = "yes" /\ so_pc = "done"
         => <>(mounted # "yes" \/ so_pc = "awaitAll"))

(***************************************************************************)
(* Failure kinds                                                           *)
(***************************************************************************)

\* C9: once fetchData of N8nExecutions or VapiAnalytics has returned, a 400
\* of the source shows as the "API Key not configured" error, and any other
\* failure of the source shows as an error other than that one.
C9_BadRequestIsNotConfigured ==
    /\ (view = "N8nExecutions" /\ ne_pc = "done" /\ Failed(ne_net)) =>
          IF ne_net.status = 400
          THEN ne_error = N8nNotConfigured
          ELSE ne_error \notin {Null, N8nNotConfigured}
    /\ (view = "VapiAnalytics" /\ va_pc = "done"
        /\ Failed(va_net["calls"])) =>
          IF va_net["calls"].status = 400
          THEN va_error = VapiNotConfigured
          ELSE va_error \notin {Null, VapiNotConfigured}

\* C10: a 200 body that is an object where an array is expected fails that
\* source only: DocumentFeed never holds a non-array in `documents`, a
\* malformed cases body leaves the KPIs as they were and the n8n executions
\* of the same StatsOverview cycle are still applied, and a malformed
\* token-usage body does not keep CostDashboard from fetching OpenAI usage.
C10_MalformedIsolated ==
    /\ view = "DocumentFeed" => IsArray(df_documents)
    /\ (view = "StatsOverview" /\ so_pc = "done"
        /\ Ok(so_net["cases"]) /\ so_net["cases"].body.t = "object") =>
          /\ so_stats = InitialStats /\ so_charts = InitialCharts
          /\ (Ok(so_net["n8n"]) /\ IsArray(so_net["n8n"].body)) =>
                so_n8nExecutions = so_net["n8n"].body.items
    /\ (view = "CostDashboard" /\ cost_pc = "done"
        /\ Ok(cost_net["token_usage"])
        /\ cost_net["token_usage"].body.t = "object") =>
          /\ cost_tokenUsage = <<>>
          /\ cost_net["openai"].k # "none"

\* C11: the win rate StatsOverview holds is activeCases / totalCases * 100
\* of the applied cases, it lies between 0 and 100, and it is exactly 0 for
\* the empty collection (and before any cases are applied).
C11_WinRateBounded ==
    view = "StatsOverview" =>
        LET winRate == so_stats.winRate IN
        /\ winRate.den > 0
        /\ 0 <= winRate.num /\ winRate.num <= 100 * winRate.den
        /\ IF "cases" \in applied
           THEN LET cases == so_net["cases"].body.items
                    active == {i \in DOMAIN cases :
                                  cases[i].status = <<"Active">>}
                IN  IF cases = <<>> THEN winRate.num = 0
                    ELSE winRate.num * Len(cases)
                            = 100 * Cardinality(active) * winRate.den
           ELSE winRate.num = 0

\* C11 witness: the cases [Active, Closed] have been applied and the win
\* rate is 50.
C11_Witness ==
    /\ view = "StatsOverview" /\ "cases" \in applied
    /\ Len(so_net["cases"].body.items) = 2
    /\ so_stats.activeCases = 1
    /\ so_stats.winRate.num = 50 * so_stats.winRate.den

\* C12: every monetary and count aggregate is a non-negative number to
\* which a record with a missing numeric field contributes 0: the totals
\* and per-case chart values of StatsOverview, and the total recorded token
\* cost CostDashboard renders.  The total of a field is stated as the number
\* of units the records that carry the field hold between them.
C12_AggregatesNonNegative ==
    /\ view = "StatsOverview" =>
        /\ so_stats.totalRevenue >= 0 /\ so_stats.totalSavings >= 0
        /\ so_stats.totalEmails >= 0
        /\ \A i \in DOMAIN so_charts.revenue :
              /\ so_charts.revenue[i].revenue >= 0
              /\ so_charts.revenue[i].savings >= 0
              /\ so_charts.revenue[i].fees >= 0
        /\ \A i \in DOMAIN so_charts.negotiationPerf :
              /\ so_charts.negotiationPerf[i].offered >= 0
              /\ so_charts.negotiationPerf[i].actual >= 0
        /\ "cases" \in applied =>
              LET cases == so_net["cases"].body.items
                  units(f) == {<<i, u>> \in (DOMAIN cases) \X (1..100) :
                                  f[i] # <<>> /\ u <= f[i][1]}
              IN  /\ so_stats.totalSavings = Cardinality(
                        units([i \in DOMAIN cases |-> cases[i].savings]))
                  /\ \A i \in DOMAIN cases :
                        cases[i].fees_taken = <<>> =>
                            so_charts.revenue[i].fees = 0
    /\ view = "CostDashboard" =>
        LET total == Cost_TotalInternalCost(cost_tokenUsage)
            units == {<<i, u>> \in (DOMAIN cost_tokenUsage) \X (1..10) :
                         /\ cost_tokenUsage[i].cost # <<>>
                         /\ u <= cost_tokenUsage[i].cost[1]}
        IN  /\ total.t = "number"
            /\ total.v = Cardinality(units)

C14_AvgCaseValueExact ==
    view = "StatsOverview" =>
        LET avg == so_stats.avgCaseValue IN
        /\ avg.den > 0
        /\ IF so_stats.totalCases > 0
           THEN /\ "cases" \in applied
                /\ so_stats.totalCases = Len(so_net["cases"].body.items)
                /\ avg.num * so_stats.totalCases
                      = so_stats.totalRevenue * avg.den
           ELSE avg.num = 0

\* C14 witness: two cases with a total revenue of 125 have been applied;
\* the stored average is 62.5, not a whole number.
C14_Witness ==
    /\ view = "StatsOverview" /\ "cases" \in applied
    /\ so_stats.totalCases = 2 /\ so_stats.totalRevenue = 125
    /\ 2 * so_stats.avgCaseValue.num = 125 * so_stats.avgCaseValue.den

\* C15: the flattened negotiations of the applied cases are the
\* concatenation, in case order, of each case's negotiations in their own
\* order: the j-th negotiation of case i stands at position j after all the
\* negotiations of the cases before i, a case without negotiations takes no
\* position, and there are no other positions.  The entries of the
\* negotiation detail chart that is published follow the same order.
C15_FlatteningKeepsOrder ==
    (view = "StatsOverview" /\ "cases" \in applied) =>
        LET cases == so_net["cases"].body.items
            negs(i) == IF cases[i].negotiations = <<>> THEN <<>>
                       ELSE cases[i].negotiations[1]
            before(i) == Cardinality(UNION {{k} \X DOMAIN negs(k) :
                                               k \in 1..(i - 1)})
            flat == Flatten(cases, 1, <<>>)
        IN  /\ Len(flat) = before(Len(cases) + 1)
            /\ \A i \in DOMAIN cases : \A j \in DOMAIN negs(i) :
                  flat[before(i) + j] = negs(i)[j]
            /\ \A k \in DOMAIN so_charts.negotiationPerf :
                  /\ so_charts.negotiationPerf[k].actual
                        = OrZero(flat[k].actual_bill)
                  /\ so_charts.negotiationPerf[k].offered
                        = OrZero(flat[k].offered_bill)

\* C15 witness: a case with two negotiations followed by a case with one
\* has been applied, and the chart holds the three in that order.
C15_Witness ==
    /\ view = "StatsOverview" /\ "cases" \in applied
    /\ Len(so_net["cases"].body.items) = 2
    /\ so_net["cases"].body.items[1].id = 1
    /\ so_net["cases"].body.items[2].id = 3
    /\ Len(so_charts.negotiationPerf) = 3
    /\ so_charts.negotiationPerf[1].actual = 30
    /\ so_charts.negotiationPerf[2].actual = 10
    /\ so_charts.negotiationPerf[3].actual = 15

\* C16: the status distribution that is published lists the distinct
\* status keys of the applied cases in the order in which each first occurs
\* in the case list, each with the number of cases that carry it; this for
\* every key, a key that looks like a non-negative integer and the key of a
\* missing status included.
C16_StatusInFirstSeenOrder ==
    (view = "StatsOverview" /\ "cases" \in applied) =>
        LET cases == so_net["cases"].body.items
            key(i) == IF cases[i].status = <<>> THEN "undefined"
                      ELSE cases[i].status[1]
            firsts == {i \in DOMAIN cases :
                          \A j \in 1..(i - 1) : key(j) # key(i)}
            rank(i) == Cardinality({j \in firsts : j <= i})
        IN  /\ Len(so_charts.status) = Cardinality(firsts)
            /\ \A i \in firsts :
                  /\ so_charts.status[rank(i)].name = key(i)
                  /\ so_charts.status[rank(i)].value
                        = Cardinality({j \in DOMAIN cases : key(j) = key(i)})

C18_RerunIdenticalFirstSeenGroups ==
    (view = "StatsOverview" /\ "cases" \in applied) =>
        LET cases == so_net["cases"].body.items
            negotiations == Flatten(cases, 1, <<>>)
            firstSeen(keys) ==
                LET firsts == {i \in DOMAIN keys :
                                  \A j \in 1..(i - 1) : keys[j] # keys[i]}
                IN  [r \in 1..Cardinality(firsts) |->
                        keys[CHOOSE i \in firsts :
                                Cardinality({j \in firsts : j <= i}) = r]]
            names(series) == [i \in DOMAIN series |-> series[i].name]
        IN  /\ so_stats = SO_Stats(cases)
            /\ so_charts = SO_Charts(cases)
            /\ names(so_charts.status)
                  = firstSeen([i \in DOMAIN cases |->
                                  IF cases[i].status = <<>> THEN "undefined"
                                  ELSE cases[i].status[1]])
            /\ names(so_charts.negotiationResults)
                  = firstSeen([i \in DOMAIN negotiations |->
                                  IF negotiations[i].result \in {<<>>, <<"">>}
                                  THEN "Unknown"
                                  ELSE negotiations[i].result[1]])

\* C19: the negotiation results that are published group the flattened
\* negotiations of the applied cases by result: one entry per distinct
\* key, its value the number of negotiations with that key, where a
\* negotiation whose result is absent or the empty string counts under
\* "Unknown" and under no other key.
C19_ResultsGroupedUnknownDefault ==
    (view = "StatsOverview" /\ "cases" \in applied) =>
        LET negotiations == Flatten(so_net["cases"].body.items, 1, <<>>)
            results == so_charts.negotiationResults
            absent(n) == n.result = <<>> \/ n.result = <<"">>
            counted(name) ==
                {i \in DOMAIN negotiations :
                    IF name = "Unknown"
                    THEN absent(negotiations[i])
                         \/ negotiations[i].result = <<"Unknown">>
                    ELSE negotiations[i].result = <<name>>}
        IN  /\ \A a, b \in DOMAIN results :
                  results[a].name = results[b].name => a = b
            /\ \A a \in DOMAIN results :
                  /\ results[a].name # ""
                  /\ results[a].value > 0
                  /\ results[a].value = Cardinality(counted(results[a].name))
            /\ \A i \in DOMAIN negotiations : \E a \in DOMAIN results :
                  i \in counted(results[a].name)

\* C19 witness: the applied cases hold a negotiation without a result and
\* one whose result is the empty string, and "Unknown" counts both.
C19_Witness ==
    /\ view = "StatsOverview" /\ "cases" \in applied
    /\ \E n \in DOMAIN so_net["cases"].body.items :
          so_net["cases"].body.items[n].id = 1
    /\ \E n \in DOMAIN so_net["cases"].body.items :
          so_net["cases"].body.items[n].id = 3
    /\ \E a \in DOMAIN so_charts.negotiationResults :
          /\ so_charts.negotiationResults[a].name = "Unknown"
          /\ so_charts.negotiationResults[a].value = 2

\* C20: once N8nExecutions has fetched an executions summary, it shows the
\* success rate of that summary: success / total_fetched * 100 to one
\* decimal place (80.0 for {success: 8, error: 2, total_fetched: 10}), a
\* value between 0 and 100, and 0 when total_fetched is 0 or absent.
C20_SuccessRateShown ==
    (/\ view = "N8nExecutions" /\ ne_pc = "done" /\ Ok(ne_net)
     /\ HasField(ne_net.body, "success")) =>
        LET summary == ne_net.body
            total == IF HasField(summary, "total_fetched")
                     THEN summary.f.total_fetched ELSE 0
            rate == NE_SuccessRate(ne_data)
            diff == rate.tenths[1] * total - 1000 * summary.f.success
        IN  /\ ne_error = Null /\ ne_data = summary
            /\ IF total > 0
               THEN /\ rate.t = "fixed" /\ rate.tenths # <<>>
                    /\ 0 <= rate.tenths[1] /\ rate.tenths[1] <= 1000
                    /\ -total <= 2 * diff /\ 2 * diff <= total
                    /\ (summary.f.success = 8 /\ total = 10) =>
                          rate.tenths = <<800>>
               ELSE rate = [t |-> "number", v |-> 0]

\* C21: the cost per minute VapiAnalytics shows is total_cost divided by
\* total_duration_minutes (to four decimal places) when the duration is
\* greater than 0, and the zero '0.00' when the duration is 0 or missing or
\* no call data is held; it is never the result of a division by zero.
C21_CostPerMinuteGuarded ==
    view = "VapiAnalytics" =>
        LET rate == VA_CostPerMinute(va_callData)
            minutes == IF HasField(va_callData, "total_duration_minutes")
                       THEN va_callData.f.total_duration_minutes ELSE 0
            diff == rate.tenThousandths[1] * minutes
                        - 10000 * va_callData.f.total_cost
        IN  IF minutes > 0
            THEN /\ rate.t = "fixed" /\ rate.tenThousandths # <<>>
                 /\ -minutes <= 2 * diff /\ 2 * diff <= minutes
            ELSE rate = Str("0.00")

\* C21 witness: a summary with cost 3 over 4 minutes has been applied and
\* the card shows 0.7500.
C21_Witness ==
    /\ view = "VapiAnalytics" /\ "calls" \in applied
    /\ va_callData.f.total_cost = 3
    /\ VA_CostPerMinute(va_callData).tenThousandths = <<7500>>

\* C22: the cost breakdown VapiAnalytics shows is taken from the first
\* call of recent_calls (the most recent one) whose costBreakdown has at
\* least one entry; it keeps that breakdown's entries whose value is a
\* number, each once and in the breakdown's order, and no entry whose value
\* is a nested object or another non-number; when no call has a non-empty
\* costBreakdown, no breakdown is shown.
C22_BreakdownOfLatestNumeric ==
    (view = "VapiAnalytics" /\ "calls" \in applied) =>
        LET shown == VA_CostBreakdown(va_callData)
            calls == IF HasField(va_callData, "recent_calls")
                     THEN va_callData.f.recent_calls ELSE <<>>
            filled(i) == /\ calls[i].costBreakdown # <<>>
                         /\ calls[i].costBreakdown[1] # <<>>
        IN  IF \E i \in DOMAIN calls : filled(i)
            THEN \E i \in DOMAIN calls :
                    /\ filled(i)
                    /\ \A j \in 1..(i - 1) : ~filled(j)
                    /\ shown # <<>>
                    /\ LET all == calls[i].costBreakdown[1]
                           kept == {k \in DOMAIN all :
                                       all[k].value.t = "number"}
                       IN  /\ Len(shown[1]) = Cardinality(kept)
                           /\ \A k \in kept :
                                 shown[1][Cardinality(
                                     {m \in kept : m <= k})] = all[k]
            ELSE shown = <<>>

\* C22 witness: the applied summary lists a call without a breakdown, one
\* with an empty breakdown, then one whose breakdown mixes numbers with a
\* nested object and a string; the two numeric entries are shown.
C22_Witness ==
    /\ view = "VapiAnalytics" /\ "calls" \in applied
    /\ va_callData.f.total_calls = 4
    /\ VA_CostBreakdown(va_callData)
          = << <<[name |-> "stt", value |-> [t |-> "number", v |-> 1]],
                 [name |-> "llm", value |-> [t |-> "number", v |-> 2]]>> >>

\* C23: the negotiation detail chart that is published consists of exactly
\* the first min(20, n) of the n flattened negotiations of the applied
\* cases, in flattened order, each as {name, offered, actual}: a missing
\* bill is 0, the name is the recipient cut to ten characters or, without a
\* recipient, 'Neg ' and the position counted from 0.
C23_DetailChartIsFirstTwenty ==
    (view = "StatsOverview" /\ "cases" \in applied) =>
        LET flat == Flatten(so_net["cases"].body.items, 1, <<>>)
            perf == so_charts.negotiationPerf
            bill(b) == IF b = <<>> THEN 0 ELSE b[1]
        IN  /\ Len(perf) = IF Len(flat) < 20 THEN Len(flat) ELSE 20
            /\ \A k \in DOMAIN perf :
                  /\ perf[k].offered = bill(flat[k].offered_bill)
                  /\ perf[k].actual = bill(flat[k].actual_bill)
                  /\ perf[k].name =
                        IF flat[k].to \in {<<>>, <<"">>} THEN [neg |-> k - 1]
                        ELSE IF Len(flat[k].to[1]) <= 10
                             THEN [to |-> flat[k].to[1]]
                             ELSE [to |-> SubSeq(flat[k].to[1], 1, 10)]

\* C23 witness: twenty-two negotiations have been flattened and the chart
\* holds the first twenty of them.
C23_Witness ==
    /\ view = "StatsOverview" /\ "cases" \in applied
    /\ Len(Flatten(so_net["cases"].body.items, 1, <<>>)) = 22
    /\ Len(so_charts.negotiationPerf) = 20
    /\ so_charts.negotiationPerf[1].offered = 1
    /\ so_charts.negotiationPerf[20].offered = 9

\* C24: in SystemLogs the responses are applied in the order in which
\* their requests were started: once logs holds the response of a request,
\* no step replaces it by the response of a request started earlier (the
\* log lines of a response name the request they answer).
C24_NoOlderResponseOverwrites ==
    [][(/\ view = "SystemLogs"
        /\ IsArray(sl_logs) /\ sl_logs.items # <<>>
        /\ IsArray(sl_logs') /\ sl_logs'.items # <<>>)
          => sl_logs'.items[1] >= sl_logs.items[1]]_vars

C26_CyclesEndNotLoading ==
    /\ (view = "StatsOverview" /\ so_pc = "done") => ~so_loading
    /\ (view = "N8nExecutions" /\ ne_pc = "done") => ~ne_loading
    /\ (view = "VapiAnalytics" /\ va_pc = "done") => ~va_loading
    /\ (view = "CaseDetails" /\ cd_pc = "done") => ~cd_loading
    /\ (view = "CostDashboard" /\ cost_pc = "done") => ~cost_loading
    /\ view = "Automations" =>
        /\ (au_started > 0 /\ au_calls = <<>>) => ~au_loading
        /\ au_triggerPosts = 0 => au_triggeringWorkflow = Null

\* C26 witness: a StatsOverview cycle whose cases body failed to parse has
\* returned through catch and finally.
C26_Witness ==
    /\ view = "StatsOverview" /\ so_pc = "done"
    /\ Ok(so_net["cases"]) /\ so_net["cases"].body = InvalidJson
    /\ ~so_loading

\* C27: in every StatsOverview snapshot the group counts conserve the
\* input.  The values of the status distribution sum to totalCases; the
\* values of the negotiation results sum to the number of flattened
\* negotiations, which is the sum over the cases of the number of each
\* case's own negotiations (each negotiation under exactly one case, once);
\* and stats and charts come from the same cases: the revenue series has
\* one bar per counted case, in order, and its revenues sum to
\* totalRevenue.
C27_GroupCountsConserveInput ==
    view = "StatsOverview" =>
        LET total(series) ==
                Cardinality(UNION {{a} \X (1..series[a].value) :
                                      a \in DOMAIN series})
            bars == so_charts.revenue
        IN  /\ total(so_charts.status) = so_stats.totalCases
            /\ Len(bars) = so_stats.totalCases
            /\ Cardinality(UNION {{a} \X (1..bars[a].revenue) :
                                     a \in DOMAIN bars})
                  = so_stats.totalRevenue
            /\ "cases" \in applied =>
                  LET cases == so_net["cases"].body.items
                      own(i) == IF cases[i].negotiations = <<>> THEN <<>>
                                ELSE cases[i].negotiations[1]
                      flat == Flatten(cases, 1, <<>>)
                  IN  /\ so_stats.totalCases = Len(cases)
                      /\ \A i \in DOMAIN cases : bars[i].name = cases[i].id
                      /\ total(so_charts.negotiationResults) = Len(flat)
                      /\ Len(flat) = Cardinality(UNION {{i} \X DOMAIN own(i) :
                                                    i \in DOMAIN cases})

\* C27 witness: two cases of the same status, with negotiations of the
\* same result between them, have been applied; one status group counts
\* both cases.
C27_Witness ==
    /\ view = "StatsOverview" /\ "cases" \in applied
    /\ so_stats.totalCases = 2
    /\ Len(so_charts.status) = 1 /\ so_charts.status[1].value = 2
    /\ Len(so_charts.negotiationResults) = 1
    /\ so_charts.negotiationResults[1].value = 22

\* C28: once a StatsOverview cycle has returned with an ok n8n response
\* that is an array of executions or a summary object, the executions
\* handed to N8nHealth are that response; and for that response N8nHealth
\* counts successCount >= 0, errorCount >= 0 and successCount + errorCount
\* = total, where an array gives its length as total and its finished
\* executions as successCount, and a summary gives its success and error
\* fields (0 when missing) and total_fetched, or success + error without
\* it.
C28_HealthCountsAddUp ==
    (/\ view = "StatsOverview" /\ so_pc = "done" /\ Ok(so_net["n8n"])
     /\ \/ IsArray(so_net["n8n"].body)
        \/ so_net["n8n"].body \in N8nSummaries) =>
        LET response == so_net["n8n"].body
            counts == N8nHealth(response)
        IN  /\ IF IsArray(response)
               THEN so_n8nExecutions = response.items
               ELSE so_n8nExecutions = response
            /\ counts.successCount >= 0 /\ counts.errorCount >= 0
            /\ counts.successCount + counts.errorCount = counts.total
            /\ IF IsArray(response)
               THEN /\ counts.total = Len(response.items)
                    /\ counts.successCount
                          = Cardinality({i \in DOMAIN response.items :
                                            response.items[i].finished})
               ELSE /\ HasField(response, "success") =>
                          counts.successCount = response.f.success
                    /\ (HasField(response, "total_fetched")
                        /\ response.f.total_fetched > 0) =>
                          counts.total = response.f.total_fetched


(***************************************************************************)
(* CaseTable: deleting cases                                               *)
(***************************************************************************)

\* C29: a step in which a DELETE settles changes the case list only on an
\* ok response: handleDeleteCase then leaves exactly the cases whose id is
\* not the given one, in their old order, and handleDeleteAll leaves the
\* empty list; a non-ok response or a rejected fetch leaves the list as it
\* was, and so does starting or declining a delete.  Each settled
\* handleDeleteCase request sets deleting to null, and deleting is null
\* whenever no such request is in flight.
C29_DeleteChangesOnlyOnSuccess ==
    /\ [](view = "CaseTable" =>
            ((\A i \in DOMAIN ct_dels : ct_dels[i].kind # "case")
                => ct_deleting = <<>>))
    /\ [][view = "CaseTable" =>
            /\ Len(ct_dels') < Len(ct_dels) =>
                LET req == ct_last'.req
                    res == ct_last'.res
                    prev == ct_cases.items
                    next == ct_cases'.items
                    keep == {k \in DOMAIN prev : prev[k].id # req.id}
                IN  /\ (req.kind = "case" /\ res = "ok") =>
                        /\ Len(next) = Cardinality(keep)
                        /\ \A k \in keep :
                            next[Cardinality({j \in keep : j <= k})] = prev[k]
                        /\ Len(next) = Len(prev) -
                            (IF \E k \in DOMAIN prev : prev[k].id = req.id
                             THEN 1 ELSE 0)
                    /\ (req.kind = "all" /\ res = "ok") => next = <<>>
                    /\ res # "ok" => ct_cases' = ct_cases
                    /\ req.kind = "case" => ct_deleting' = <<>>
            /\ (Len(ct_dels') >= Len(ct_dels) /\ ct_pc' = ct_pc) =>
                ct_cases' = ct_cases]_vars

\* an ok DELETE of the middle one of three cases has left the other two in
\* their order, and deleting is null again
C29_Witness ==
    /\ view = "CaseTable"
    /\ ct_last # Null
    /\ ct_last.res = "ok" /\ ct_last.req = [kind |-> "case", id |-> 12]
    /\ Len(ct_cases.items) = 2
    /\ ct_cases.items[1].id = 11 /\ ct_cases.items[2].id = 13
    /\ ct_deleting = <<>>


(***************************************************************************)
(* App: the selected case and the login gate                               *)
(***************************************************************************)

\* C30: in App, selectedCaseId is null whenever activeTab is not 'cases';
\* what App renders is the LoginPage unless authenticated is true; and a
\* step that comes to the Cases tab from another tab shows the CaseTable,
\* not the CaseDetails of an earlier selection.
C30_SelectionOnlyOnCasesTab ==
    /\ [](view = "App" =>
            /\ app_activeTab # "cases" => app_selectedCaseId = <<>>
            /\ APP_Render(app_authenticated, app_activeTab,
                          app_selectedCaseId) # "LoginPage"
                    => app_authenticated)
    /\ [][(view = "App" /\ app_activeTab # "cases"
                /\ app_activeTab' = "cases") =>
            APP_Render(app_authenticated', app_activeTab',
                       app_selectedCaseId') = "CaseTable"]_vars

\* a case was selected on the Cases tab, and App now shows another tab
\* with no case selected
C30_Witness ==
    /\ view = "App" /\ mounted = "yes"
    /\ "selectedCaseId" \in applied
    /\ app_authenticated
    /\ app_activeTab = "logs"
    /\ app_selectedCaseId = <<>>

====
